---- MODULE Spec2Model ----
(***************************************************************************)
(* Model of the claude-assistant-rs daemon: the message-store reader       *)
(* (messages.rs), the contact directory (contacts.rs), the session         *)
(* supervisor and registry (session.rs, registry.rs) and the daemon loop   *)
(* cmd_run (main.rs).                                                      *)
(*                                                                         *)
(* Strings whose characters the code inspects (phones, names, message      *)
(* text) are sequences of one-character strings.  An Option<T> is a        *)
(* sequence of length 0 (None) or 1 (Some).                                *)
(***************************************************************************)
EXTENDS Integers, Sequences, FiniteSets, TLC

\* ------------------------------------------------------------------------
\* Bounds
\* ------------------------------------------------------------------------

\* largest ROWID the external writer assigns in the daemon specification
MaxRowid == 2

\* number of message rows of a store drawn for the reader specification
MaxRows == 2

\* largest reading of the clock in the registry specification
MaxClock == 2

\* number of calls of the registry interface in the registry specification
MaxCalls == 4

\* largest instant of the clock in the reminder specification
MaxNow == 5

\* number of lines of a captured pane in the pane specification
MaxLines == 3

\* minutes of uptime in the session-manager specification
MaxMinutes == 5

\* number of calls of the session manager and health blocks in the
\* session-manager specification
MaxSmCalls == 3

\* ------------------------------------------------------------------------
\* Strings and options
\* ------------------------------------------------------------------------

None == <<>>

Some(x) == <<x>>

IsSome(o) == Len(o) = 1

IsNone(o) == Len(o) = 0

Unwrap(o) == o[1]

\* a cursor overwritten with the ROWID of the message just handled
Overwrite(a, b) == b

\* i64::max
Max(a, b) == IF a >= b THEN a ELSE b

Min(a, b) == IF a <= b THEN a ELSE b

UpperChars == <<"A","B","C","D","E","F","G","H","I","J","K","L","M",
                "N","O","P","Q","R","S","T","U","V","W","X","Y","Z">>

LowerChars == <<"a","b","c","d","e","f","g","h","i","j","k","l","m",
                "n","o","p","q","r","s","t","u","v","w","x","y","z">>

DigitChars == {"0","1","2","3","4","5","6","7","8","9"}

\* U+FFFC, the object-replacement placeholder of the message store
OBJ == "U+FFFC"

IsUpper(c) == \E i \in 1..26 : UpperChars[i] = c

IsLower(c) == \E i \in 1..26 : LowerChars[i] = c

IsDigit(c) == c \in DigitChars

IsAlphabetic(c) == IsUpper(c) \/ IsLower(c)

IsAlphanumeric(c) == IsAlphabetic(c) \/ IsDigit(c)

LowerChar(c) ==
    IF IsUpper(c) THEN LowerChars[CHOOSE i \in 1..26 : UpperChars[i] = c] ELSE c

\* str::to_lowercase
ToLower(s) == [i \in 1..Len(s) |-> LowerChar(s[i])]

Take(s, n) == SubSeq(s, 1, Min(n, Len(s)))

\* ------------------------------------------------------------------------
\* contacts.rs
\* ------------------------------------------------------------------------

BLESSED_TIERS == {"admin", "wife", "family", "favorite"}

IsBlessedTier(tier) == tier \in BLESSED_TIERS

\* tier spellings the contacts CLI can print; the tier is free-form
FnTiers == {"admin", "wife", "family", "favorite", "unknown", "", "Admin", "ADMIN", "Wife", "Family", "FAMILY", "work"}

\* the characters of a tier spelling
Spelling(tier) ==
    CASE tier = "admin" -> <<"a","d","m","i","n">>
      [] tier = "wife" -> <<"w","i","f","e">>
      [] tier = "family" -> <<"f","a","m","i","l","y">>
      [] tier = "favorite" -> <<"f","a","v","o","r","i","t","e">>
      [] tier = "unknown" -> <<"u","n","k","n","o","w","n">>
      [] tier = "" -> <<>>
      [] tier = "Admin" -> <<"A","d","m","i","n">>
      [] tier = "ADMIN" -> <<"A","D","M","I","N">>
      [] tier = "Wife" -> <<"W","i","f","e">>
      [] tier = "Family" -> <<"F","a","m","i","l","y">>
      [] tier = "FAMILY" -> <<"F","A","M","I","L","Y">>
      [] tier = "work" -> <<"w","o","r","k">>

\* normalize_phone with the country code of a ten-digit number added
\* without the plus sign
NormalizePhoneBarePrefix(phone) ==
    LET has_plus == Len(phone) > 0 /\ phone[1] = "+"
        digits   == SelectSeq(phone, IsDigit)
    IN  IF has_plus THEN <<"+">> \o digits
        ELSE IF Len(digits) = 10 THEN <<"1">> \o digits
        ELSE IF Len(digits) = 11 /\ digits[1] = "1" THEN <<"+">> \o digits
        ELSE <<"+">> \o digits

\* normalize_phone: keep the digits; a leading '+' is kept, ten digits get
\* "+1", anything else gets "+"
NormalizePhone(phone) ==
    LET has_plus == Len(phone) > 0 /\ phone[1] = "+"
        digits   == SelectSeq(phone, IsDigit)
    IN  IF has_plus THEN <<"+">> \o digits
        ELSE IF Len(digits) = 10 THEN <<"+", "1">> \o digits
        ELSE IF Len(digits) = 11 /\ digits[1] = "1" THEN <<"+">> \o digits
        ELSE <<"+">> \o digits

\* handles and contact names of the modelled world
PhoneJane == <<"+","1","6","1","7","5","5","5","1","2","3","4">>

PhoneBob == <<"+","1","6","1","7","5","5","5","0","0","0","2">>

PhoneAda == <<"+","1","6","1","7","5","5","5","0","0","0","3">>

PhoneStranger == <<"+","1","6","1","7","5","5","5","0","0","0","9">>

PhoneFay == <<"+","1","6","1","7","5","5","5","0","0","0","4">>

NameJane == <<"J","a","n","e"," ","D","o","e">>

NameBob == <<"B","o","b">>

NameAda == <<"A","d","a">>

NameFay == <<"F","a","y">>

\* the array printed by `contacts list --json`: Jane is stored with a
\* formatted US number, Bob has an unauthorized tier, Ada's tier is spelled
\* with a capital, Fay is a family contact
ContactsJson ==
    << [name |-> NameJane,
        phone |-> Some(<<"6","1","7","-","5","5","5","-","1","2","3","4">>),
        email |-> None, tier |-> "admin"],
       [name |-> NameBob, phone |-> Some(PhoneBob),
        email |-> None, tier |-> "work"],
       [name |-> NameAda, phone |-> Some(PhoneAda),
        email |-> Some(<<"A","d","a","@","x">>), tier |-> "Admin"],
       [name |-> NameFay, phone |-> Some(PhoneFay),
        email |-> None, tier |-> "family"] >>

\* HashMap::insert
MapInsert(m, k, v) ==
    [x \in (DOMAIN m) \cup {k} |-> IF x = k THEN v ELSE m[x]]

EmptyMap == [x \in {} |-> None]

\* the body of the `for c in contacts` loop of ContactsManager::load
LoadOne(cache, c) ==
    LET phone   == IF IsSome(c.phone) THEN Some(NormalizePhone(Unwrap(c.phone)))
                   ELSE None
        email   == IF IsSome(c.email) THEN Some(ToLower(Unwrap(c.email)))
                   ELSE None
        contact == [name |-> c.name, phone |-> phone, email |-> email,
                    tier |-> c.tier]
        c1 == IF IsSome(phone) THEN MapInsert(cache, Unwrap(phone), contact)
              ELSE cache
        c2 == IF IsSome(email) THEN MapInsert(c1, Unwrap(email), contact)
              ELSE c1
    IN  MapInsert(c2, ToLower(c.name), contact)

RECURSIVE LoadFrom(_, _, _)
LoadFrom(json, i, cache) ==
    IF i > Len(json) THEN cache
    ELSE LoadFrom(json, i + 1, LoadOne(cache, json[i]))

\* ContactsManager::load
ContactsLoad(json) == LoadFrom(json, 1, EmptyMap)

\* ContactsManager.cache once contacts.load() has succeeded at startup; it is
\* never refreshed afterwards
ContactsCache == ContactsLoad(ContactsJson)

\* ContactsManager::lookup_phone
LookupPhone(cache, phone) ==
    LET normalized == NormalizePhone(phone)
    IN  IF normalized \in DOMAIN cache THEN Some(cache[normalized]) ELSE None

\* ------------------------------------------------------------------------
\* session.rs: session names
\* ------------------------------------------------------------------------

\* SessionManager::session_name_for_contact
SessionNameForContact(contact_name) ==
    LET lower == ToLower(contact_name)
    IN  [i \in 1..Len(lower) |-> IF lower[i] = " " THEN "-" ELSE lower[i]]

GroupPrefix == <<"g","r","o","u","p","-">>

\* SessionManager::session_name_for_group
SessionNameForGroup(chat_id, display_name) ==
    IF IsSome(display_name)
    THEN LET lower == ToLower(Unwrap(display_name))
             safe  == [i \in 1..Len(lower) |->
                          IF IsAlphanumeric(lower[i]) THEN lower[i] ELSE "_"]
         IN  GroupPrefix \o Take(safe, 20)
    ELSE GroupPrefix \o Take(chat_id, 12)

\* ------------------------------------------------------------------------
\* messages.rs: the blob decoder, at the level of the strings it finds
\* ------------------------------------------------------------------------

TextHi == <<"h","i">>

TextEmpty == <<>>

TextObj == <<OBJ>>

\* is_valid_message_text
IsValidMessageText(text) ==
    /\ Len(text) # 0
    /\ Len(text) > 1
    /\ \E i \in 1..Len(text) : IsAlphabetic(text[i])

\* the first candidate that is a valid message text, if any
RECURSIVE FirstValidFrom(_, _)
FirstValidFrom(cands, i) ==
    IF i > Len(cands) THEN None
    ELSE IF IsValidMessageText(cands[i]) THEN Some(cands[i])
    ELSE FirstValidFrom(cands, i + 1)

\* extract_text_after_marker over the length-prefixed strings that follow
\* the marker (IsNone(typed): no NSString / NSMutableString marker)
ExtractTextAfterMarker(typed) ==
    IF IsNone(typed) THEN None ELSE FirstValidFrom(Unwrap(typed), 1)

\* a property-list value: k is "str", "dict", "arr" or "other"; a dict has
\* an optional $objects array and an optional NS.string entry
PlistStr(s) == [k |-> "str", s |-> s, objects |-> None, nsstring |-> None,
                items |-> <<>>]

PlistDict(objects, nsstring) ==
    [k |-> "dict", s |-> <<>>, objects |-> objects, nsstring |-> nsstring,
     items |-> <<>>]

PlistArr(items) == [k |-> "arr", s |-> <<>>, objects |-> None,
                    nsstring |-> None, items |-> items]

PlistOther == [k |-> "other", s |-> <<>>, objects |-> None, nsstring |-> None,
               items |-> <<>>]

\* the `for obj in objects` loop of extract_string_from_plist
RECURSIVE ObjectsScan(_, _)
ObjectsScan(objects, i) ==
    IF i > Len(objects) THEN None
    ELSE LET obj == objects[i]
         IN  IF obj.k = "str" /\ IsValidMessageText(obj.s) THEN Some(obj.s)
             ELSE IF obj.k = "dict" /\ IsSome(obj.nsstring) THEN obj.nsstring
             ELSE ObjectsScan(objects, i + 1)

RECURSIVE ExtractStringFromPlist(_)
RECURSIVE ArrayScan(_, _)
\* the `for item in arr` loop of extract_string_from_plist
ArrayScan(items, i) ==
    IF i > Len(items) THEN None
    ELSE LET r == ExtractStringFromPlist(items[i])
         IN  IF IsSome(r) THEN r ELSE ArrayScan(items, i + 1)

\* extract_string_from_plist
ExtractStringFromPlist(value) ==
    CASE value.k = "str"  -> Some(value.s)
      [] value.k = "dict" -> IF IsSome(value.objects)
                             THEN ObjectsScan(Unwrap(value.objects), 1)
                             ELSE None
      [] value.k = "arr"  -> ArrayScan(value.items, 1)
      [] OTHER            -> None

\* parse_via_plist (IsNone(plist): plist::from_bytes fails)
ParseViaPlist(plist) ==
    IF IsSome(plist) THEN ExtractStringFromPlist(Unwrap(plist)) ELSE None

\* extract_message_text
ExtractMessageText(blob) ==
    LET t == ExtractTextAfterMarker(blob.typed)
    IN  IF IsSome(t) THEN t ELSE ParseViaPlist(blob.plist)

\* extract_audio_transcription: the first length-prefixed string after the
\* IMAudioTranscription marker that has an alphabetic character
RECURSIVE AudioScan(_, _)
AudioScan(cands, i) ==
    IF i > Len(cands) THEN None
    ELSE IF Len(cands[i]) # 0 /\ \E n \in 1..Len(cands[i]) : IsAlphabetic(cands[i][n])
         THEN Some(cands[i])
         ELSE AudioScan(cands, i + 1)

ExtractAudioTranscription(blob) ==
    IF IsNone(blob.audio) THEN None ELSE AudioScan(Unwrap(blob.audio), 1)

\* parse_attributed_body
ParseAttributedBody(blob) ==
    [text |-> ExtractMessageText(blob), audio |-> ExtractAudioTranscription(blob)]

\* blobs of the modelled world
BlobTyped == [typed |-> Some(<<TextHi>>), plist |-> None, audio |-> None]

\* a voice message: placeholder text and a transcription
BlobAudio == [typed |-> Some(<<TextObj>>), plist |-> None,
              audio |-> Some(<<TextHi>>)]

\* a keyed archive whose string object is empty
BlobPlistEmpty ==
    [typed |-> None,
     plist |-> Some(PlistDict(Some(<<PlistOther, PlistDict(None, Some(TextEmpty))>>), None)),
     audio |-> None]

BlobGarbage == [typed |-> None, plist |-> None, audio |-> None]

\* ------------------------------------------------------------------------
\* messages.rs: the blob decoder over the bytes of the blob.  Bytes are
\* 0..255, offsets count from 0 as in the source.  Every indexing of a slice
\* is recorded: oob is TRUE when an index or a range passes the end.
\* ------------------------------------------------------------------------

\* b"NSString"
MarkerNSString == <<78, 83, 83, 116, 114, 105, 110, 103>>

\* b"NSMutableString"
MarkerNSMutableString == <<78, 83, 77, 117, 116, 97, 98, 108, 101, 83, 116, 114, 105, 110, 103>>

\* b"IMAudioTranscription"
MarkerAudio == <<73, 77, 65, 117, 100, 105, 111, 84, 114, 97, 110, 115, 99, 114, 105, 112, 116, 105, 111, 110>>

\* data[i], 0 when i is past the end
ByteAt(data, i) == IF i < Len(data) THEN data[i + 1] ELSE 0

\* data[a..b] can be taken
RangeOk(data, a, b) == a <= b /\ b <= Len(data)

\* &data[a..b]
Bytes(data, a, b) == [k \in 1..(b - a) |-> ByteAt(data, a + k - 1)]

\* haystack.windows(needle.len()).position(|window| window == needle)
RECURSIVE FindFrom(_, _, _)
FindFrom(haystack, needle, pos) ==
    IF pos + Len(needle) > Len(haystack) THEN None
    ELSE IF SubSeq(haystack, pos + 1, pos + Len(needle)) = needle THEN Some(pos)
    ELSE FindFrom(haystack, needle, pos + 1)

\* find_subsequence
FindSubsequence(haystack, needle) == FindFrom(haystack, needle, 0)

\* std::str::from_utf8(text_bytes).is_ok(), for bytes that hold no lead byte
\* of a multi-byte sequence (0xC2..0xF4): a byte >= 0x80 is then invalid
Utf8Ok(bytes) == \A i \in 1..Len(bytes) : bytes[i] < 128

\* char::is_alphabetic on an ASCII byte
IsAlphabeticByte(b) == b \in 65..90 \/ b \in 97..122

\* char::is_whitespace on an ASCII byte
IsWhitespaceByte(b) == b \in 9..13 \/ b = 32

\* str::trim
RECURSIVE TrimStartBytes(_)
TrimStartBytes(t) ==
    IF Len(t) > 0 /\ IsWhitespaceByte(t[1]) THEN TrimStartBytes(Tail(t)) ELSE t

RECURSIVE TrimEndBytes(_)
TrimEndBytes(t) ==
    IF Len(t) > 0 /\ IsWhitespaceByte(t[Len(t)]) THEN TrimEndBytes(SubSeq(t, 1, Len(t) - 1)) ELSE t

TrimBytes(t) == TrimEndBytes(TrimStartBytes(t))

\* is_valid_message_text on the decoded bytes
IsValidMessageBytes(text) ==
    /\ Len(text) # 0
    /\ Len(text) > 1
    /\ \E i \in 1..Len(text) : IsAlphabeticByte(text[i])

\* a decoder that takes the text of the length read without comparing it
\* with the bytes that remain
FitsUnchecked(n, need) == TRUE

\* the guards `slice.len() > k + len` in front of every slice[k..k + len]
Fits(n, need) == n > need

\* u16::from_le_bytes
LE16(b0, b1) == b0 + 256 * b1

\* u32::from_le_bytes as usize; every value from 131072 on stands as 131072,
\* the only use of the value being behind `len < 100_000`
LE32(b0, b1, b2, b3) ==
    IF b3 > 0 \/ b2 > 1 THEN 131072 ELSE b0 + 256 * b1 + 65536 * b2

\* `!cleaned.is_empty() && cleaned.chars().any(|c| c.is_alphabetic())`
IsValidTranscriptBytes(text) ==
    /\ TrimBytes(text) # <<>>
    /\ \E k \in 1..Len(TrimBytes(text)) : IsAlphabeticByte(TrimBytes(text)[k])

\* one length-prefixed candidate: the header bytes hdr..hdr+k-1 are read when
\* enter holds, the text from..from+len when take holds
Candidate(data, enter, hdrTo, take, from, len, audio) ==
    LET text == Bytes(data, from, from + len)
        valid(t) == IF audio THEN IsValidTranscriptBytes(t) ELSE IsValidMessageBytes(t)
    IN  [oob |-> \/ enter /\ ~(hdrTo <= Len(data))
                 \/ enter /\ take /\ ~RangeOk(data, from, from + len),
         res |-> IF enter /\ take /\ Utf8Ok(text) /\ valid(text) THEN Some(text) ELSE None]

\* the body of the loop of extract_text_after_marker at offset i
TextAt(data, i) ==
    LET n == Len(data) - i
        len1 == ByteAt(data, i + 1)
        f1 == Candidate(data, n > 2, i + 2,
                        len1 > 0 /\ len1 < 128 /\ Fits(n, 2 + len1),
                        i + 2, len1, FALSE)
        len2 == LE16(ByteAt(data, i + 2), ByteAt(data, i + 3))
        f2 == Candidate(data, n > 4 /\ ByteAt(data, i + 1) = 129, i + 4,
                        len2 > 0 /\ Fits(n, 4 + len2),
                        i + 4, len2, FALSE)
        len3 == LE32(ByteAt(data, i + 2), ByteAt(data, i + 3), ByteAt(data, i + 4), ByteAt(data, i + 5))
        f3 == Candidate(data, n > 6 /\ ByteAt(data, i + 1) = 130, i + 6,
                        len3 > 0 /\ len3 < 100000 /\ Fits(n, 6 + len3),
                        i + 6, len3, FALSE)
    IN  IF n = 0 \/ ByteAt(data, i) # 43 THEN [oob |-> ~(n = 0 \/ i < Len(data)), res |-> None]
        ELSE IF f1.oob \/ IsSome(f1.res) THEN f1
        ELSE IF f2.oob \/ IsSome(f2.res) THEN f2
        ELSE f3

\* 0..len.saturating_sub(10)
ScanEnd(data) == IF Len(data) > 10 THEN Len(data) - 10 ELSE 0

\* extract_text_after_marker from offset i on
RECURSIVE TextScan(_, _)
TextScan(data, i) ==
    IF i >= ScanEnd(data) THEN [oob |-> FALSE, res |-> None]
    ELSE LET c == TextAt(data, i)
         IN  IF c.oob \/ IsSome(c.res) THEN c ELSE TextScan(data, i + 1)

ExtractTextAfterMarkerBytes(data) == TextScan(data, 0)

\* the body of the loop of extract_audio_transcription at offset i
AudioAt(data, i) ==
    LET n == Len(data) - i
        len2 == LE16(ByteAt(data, i + 1), ByteAt(data, i + 2))
        a2 == Candidate(data, n > 4 /\ ByteAt(data, i) = 129, i + 3,
                        len2 > 10 /\ len2 < 5000 /\ Fits(n, 3 + len2),
                        i + 3, len2, TRUE)
        len1 == ByteAt(data, i)
        a1 == Candidate(data, n > 2, i + 1,
                        len1 > 10 /\ len1 < 128 /\ Fits(n, 1 + len1),
                        i + 1, len1, TRUE)
    IN  IF a2.oob \/ IsSome(a2.res) THEN a2 ELSE a1

RECURSIVE AudioScanBytes(_, _)
AudioScanBytes(data, i) ==
    IF i >= ScanEnd(data) THEN [oob |-> FALSE, res |-> None]
    ELSE LET c == AudioAt(data, i)
         IN  IF c.oob THEN c
             ELSE IF IsSome(c.res) THEN [oob |-> FALSE, res |-> Some(TrimBytes(Unwrap(c.res)))]
             ELSE AudioScanBytes(data, i + 1)

\* `&data[pos + marker.len()..]` for the first occurrence of the marker
AfterMarker(data, marker) ==
    LET pos == FindSubsequence(data, marker)
        start == Unwrap(pos) + Len(marker)
    IN  IF IsNone(pos) THEN [found |-> FALSE, oob |-> FALSE, rest |-> <<>>]
        ELSE [found |-> TRUE, oob |-> ~RangeOk(data, start, Len(data)),
              rest |-> Bytes(data, start, Len(data))]

\* the scan of what follows a marker
NoText == [oob |-> FALSE, res |-> None]

TextAfter(data, marker) ==
    LET a == AfterMarker(data, marker)
    IN  IF ~a.found THEN NoText
        ELSE IF a.oob THEN [oob |-> TRUE, res |-> None]
        ELSE ExtractTextAfterMarkerBytes(a.rest)

\* a complete binary property list whose top object is the string "hi":
\* magic "bplist00", object 0x52 'h' 'i', offset table, 32-byte trailer
BplistHi ==
    <<98, 112, 108, 105, 115, 116, 48, 48, 82, 104, 105, 8,
      0, 0, 0, 0, 0, 0, 1, 1,
      0, 0, 0, 0, 0, 0, 0, 1,
      0, 0, 0, 0, 0, 0, 0, 0,
      0, 0, 0, 0, 0, 0, 0, 11>>

\* plist::from_bytes::<plist::Value>(data): an error for every blob that is
\* not a complete property list
PlistFromBytes(data) ==
    IF data = BplistHi THEN Some([k |-> "str", s |-> <<104, 105>>]) ELSE None

\* parse_via_plist on the bytes
ParseViaPlistBytes(data) ==
    LET p == PlistFromBytes(data)
    IN  IF IsSome(p) /\ Unwrap(p).k = "str" THEN Some(Unwrap(p).s) ELSE None

\* extract_message_text on the bytes
ExtractMessageTextBytes(data) ==
    LET m1 == TextAfter(data, MarkerNSString)
        m2 == TextAfter(data, MarkerNSMutableString)
    IN  IF m1.oob \/ IsSome(m1.res) THEN m1
        ELSE IF m2.oob \/ IsSome(m2.res) THEN m2
        ELSE [oob |-> FALSE, res |-> ParseViaPlistBytes(data)]

\* extract_audio_transcription on the bytes
ExtractAudioTranscriptionBytes(data) ==
    LET a == AfterMarker(data, MarkerAudio)
    IN  IF ~a.found THEN NoText
        ELSE IF a.oob THEN [oob |-> TRUE, res |-> None]
        ELSE AudioScanBytes(a.rest, 0)

\* parse_attributed_body on the bytes
ParseAttributedBodyBytes(data) ==
    LET text == ExtractMessageTextBytes(data)
        audio == ExtractAudioTranscriptionBytes(data)
    IN  [text |-> text.res, audio |-> IF text.oob THEN None ELSE audio.res,
         oob |-> text.oob \/ audio.oob]

\* ------------------------------------------------------------------------
\* The message store (chat.db): message rows with their handle, their
\* chat_message_join/chat rows and their attachment rows.  ROWID = index.
\* ------------------------------------------------------------------------

NameFam == <<"F","a","m">>

GroupIdent == <<"c","h","a","t","A","A","B","B","C","C","D","D","E","E">>

ChatJane == [style |-> Some(45), display_name |-> None,
             chat_identifier |-> Some(PhoneJane)]

ChatBob == [style |-> Some(45), display_name |-> None,
            chat_identifier |-> Some(PhoneBob)]

ChatFay == [style |-> Some(45), display_name |-> None,
            chat_identifier |-> Some(PhoneFay)]

ChatStranger == [style |-> Some(45), display_name |-> None,
                 chat_identifier |-> Some(PhoneStranger)]

ChatFam == [style |-> Some(43), display_name |-> Some(NameFam),
            chat_identifier |-> Some(GroupIdent)]

NullChat == [style |-> None, display_name |-> None, chat_identifier |-> None]

AttachmentFile == <<"~","/","a",".","p","n","g">>

\* a message row: decodable is FALSE when a column has a type row.get rejects
MsgRow(date, phone, text, blob, has_att, att_rows, from_me, joins) ==
    [date |-> date, phone |-> phone, text |-> text, blob |-> blob,
     cache_has_attachments |-> has_att, att_rows |-> att_rows,
     is_from_me |-> from_me, decodable |-> TRUE, joins |-> joins]

TextRow(date, phone, from_me, joins) ==
    MsgRow(date, Some(phone), Some(TextHi), None, FALSE, <<>>, from_me, joins)

MalformedRow(date) ==
    [TextRow(date, PhoneJane, FALSE, <<ChatJane>>) EXCEPT !.decodable = FALSE]

\* ------------------------------------------------------------------------
\* messages.rs: MessagesReader
\* ------------------------------------------------------------------------

\* MAX(ROWID) of the message table; NULL (None) on an empty table
MaxRowidOf(store) == IF Len(store) = 0 THEN None ELSE Some(Len(store))

\* a startup that begins at ROWID 0 when there is no cursor file
GetLatestRowidZero(store) == [ok |-> TRUE, rowid |-> 0]

\* get_latest_rowid: row.get::<i64> fails on NULL
GetLatestRowid(store) ==
    LET m == MaxRowidOf(store)
    IN  IF IsSome(m) THEN [ok |-> TRUE, rowid |-> Unwrap(m)]
        ELSE [ok |-> FALSE, rowid |-> 0]

\* the rows of message LEFT JOIN chat_message_join LEFT JOIN chat with
\* ROWID > since: one per join row, one with NULL chat columns if none
ResultKeys(store, since) ==
    { k \in (1..Len(store)) \X (0..2) :
        /\ k[1] > since
        /\ IF Len(store[k[1]].joins) = 0 THEN k[2] = 0
           ELSE k[2] \in 1..Len(store[k[1]].joins) }

\* the columns the poll statement returns for one result row
Columns(store, k) ==
    LET m    == store[k[1]]
        chat == IF k[2] = 0 THEN NullChat ELSE m.joins[k[2]]
    IN  [rowid |-> k[1], date |-> m.date, phone |-> m.phone, text |-> m.text,
         blob |-> m.blob, has_attachments |-> m.cache_has_attachments,
         is_from_me |-> m.is_from_me, decodable |-> m.decodable,
         style |-> chat.style, display_name |-> chat.display_name,
         chat_identifier |-> chat.chat_identifier]

\* ORDER BY message.date ASC: every arrangement of the result rows with
\* non-decreasing date (rows of equal date come in an unspecified order)
RECURSIVE OrderByDate(_, _)
OrderByDate(store, keys) ==
    IF keys = {} THEN { <<>> }
    ELSE LET first == { k \in keys :
                          \A o \in keys : store[k[1]].date <= store[o[1]].date }
         IN  UNION { { <<Columns(store, k)>> \o rest :
                         rest \in OrderByDate(store, keys \ {k}) } : k \in first }

\* the single-row re-query of the chat columns (query_row: the first row)
Requery(store, rowid) ==
    IF Len(store[rowid].joins) = 0 THEN NullChat ELSE store[rowid].joins[1]

\* the `match (&text, &attributed_body)` of get_new_messages
ResolveText(text, blob) ==
    IF IsSome(text) /\ Len(Unwrap(text)) # 0 /\ Unwrap(text) # TextObj
    THEN [text |-> Some(Unwrap(text)), audio |-> None]
    ELSE IF IsSome(blob) THEN ParseAttributedBody(Unwrap(blob))
    ELSE [text |-> None, audio |-> None]

\* get_attachments: rows without a filename are filtered out
GetAttachments(att_rows) == SelectSeq(att_rows, IsSome)

\* a re-query whose result is reported but not used for the row
RaceRepairUnused(store, row, reqFail) ==
    [chat |-> [style |-> row.style, display_name |-> row.display_name,
               chat_identifier |-> row.chat_identifier],
     race |-> IF IsSome(row.style) THEN "none"
              ELSE IF row.rowid \in reqFail THEN "no_row"
              ELSE IF IsSome(Requery(store, row.rowid).style) THEN "success"
              ELSE "still_null"]

\* the chat columns a row is processed with, and the [RACE_TELEMETRY]
\* outcome: the re-query runs only when the polled chat.style is NULL
RaceRepair(store, row, reqFail) ==
    IF IsSome(row.style)
    THEN [chat |-> [style |-> row.style, display_name |-> row.display_name,
                    chat_identifier |-> row.chat_identifier],
          race |-> "none"]
    ELSE IF row.rowid \in reqFail
    THEN [chat |-> [style |-> row.style, display_name |-> row.display_name,
                    chat_identifier |-> row.chat_identifier],
          race |-> "no_row"]
    ELSE LET c == Requery(store, row.rowid)
         IN  [chat |-> c,
              race |-> IF IsSome(c.style) THEN "success" ELSE "still_null"]

\* the body of `for row_result in rows` for one decodable row: the emitted
\* messages (none or one) and whether the attachment statement was needed
ProcessRow(store, row, reqFail) ==
    IF IsNone(row.phone) THEN [out |-> <<>>, att |-> FALSE]
    ELSE
    LET phone    == Unwrap(row.phone)
        rr       == RaceRepair(store, row, reqFail)
        resolved == ResolveText(row.text, row.blob)
        is_group == rr.chat.style = Some(43)
        chat_id  == IF IsSome(rr.chat.chat_identifier)
                    THEN Unwrap(rr.chat.chat_identifier) ELSE phone
    IN  IF IsNone(resolved.text) /\ ~row.has_attachments
        THEN [out |-> <<>>, att |-> FALSE]
        ELSE [out |-> << [rowid |-> row.rowid,
                          date |-> row.date,
                          sender |-> phone,
                          text |-> IF IsSome(resolved.text)
                                   THEN Unwrap(resolved.text) ELSE TextEmpty,
                          chat_id |-> chat_id,
                          is_from_me |-> row.is_from_me,
                          is_group |-> is_group,
                          group_name |-> IF is_group THEN rr.chat.display_name
                                         ELSE None,
                          attachments |->
                              IF row.has_attachments
                              THEN GetAttachments(store[row.rowid].att_rows)
                              ELSE <<>>,
                          audio_transcription |-> resolved.audio,
                          race |-> rr.race] >>,
              att |-> row.has_attachments]

RECURSIVE CollectFrom(_, _, _, _)
CollectFrom(store, result, i, reqFail) ==
    IF i > Len(result) THEN <<>>
    ELSE ProcessRow(store, result[i], reqFail).out
         \o CollectFrom(store, result, i + 1, reqFail)

\* get_new_messages after the statement has run: `row_result?` and
\* `get_attachments(..)?` abort the whole call at the first failing row
GetNewMessages(store, result, reqFail, attOk) ==
    IF \E i \in 1..Len(result) :
          \/ ~result[i].decodable
          \/ ~attOk /\ ProcessRow(store, result[i], reqFail).att
    THEN [ok |-> FALSE, messages |-> <<>>]
    ELSE [ok |-> TRUE, messages |-> CollectFrom(store, result, 1, reqFail)]

\* ------------------------------------------------------------------------
\* main.rs: the cursor file
\* ------------------------------------------------------------------------

Digits == <<"0","1","2","3","4","5","6","7","8","9">>

\* i64::to_string
RECURSIVE I64ToString(_)
I64ToString(n) ==
    IF n < 10 THEN <<Digits[n + 1]>>
    ELSE I64ToString(n \div 10) \o <<Digits[(n % 10) + 1]>>

DigitValue(c) == (CHOOSE i \in 1..10 : Digits[i] = c) - 1

RECURSIVE ParseDigits(_, _, _)
ParseDigits(s, i, acc) ==
    IF i > Len(s) THEN acc
    ELSE ParseDigits(s, i + 1, acc * 10 + DigitValue(s[i]))

\* str::parse::<i64> of the trimmed file content, then unwrap_or(0)
ParseCursor(s) ==
    IF Len(s) > 0 /\ \A i \in 1..Len(s) : IsDigit(s[i])
    THEN ParseDigits(s, 1, 0)
    ELSE 0

\* ------------------------------------------------------------------------
\* registry.rs: SessionRegistry.  Timestamps are readings of the clock.
\* ------------------------------------------------------------------------

\* a register that stamps updated_at only when the entry is created
RegisterStaleUpdatedAt(data, now, chat_id, session_name, transcript_dir, session_type, contact_name, display_name, tier, participants) ==
    LET existing == IF chat_id \in DOMAIN data THEN Some(data[chat_id]) ELSE None
    IN  MapInsert(data, chat_id,
            [chat_id |-> chat_id,
             session_name |-> session_name,
             transcript_dir |-> transcript_dir,
             session_type |-> session_type,
             contact_name |-> contact_name,
             display_name |-> display_name,
             tier |-> tier,
             participants |-> participants,
             created_at |-> IF IsSome(existing) THEN Unwrap(existing).created_at
                            ELSE now,
             updated_at |-> IF IsSome(existing) THEN Unwrap(existing).updated_at
                            ELSE now,
             last_message_time |->
                 IF IsSome(existing) THEN Unwrap(existing).last_message_time
                 ELSE None])

\* a register that stamps created_at on every call
RegisterFreshCreatedAt(data, now, chat_id, session_name, transcript_dir, session_type, contact_name, display_name, tier, participants) ==
    LET existing == IF chat_id \in DOMAIN data THEN Some(data[chat_id]) ELSE None
    IN  MapInsert(data, chat_id,
            [chat_id |-> chat_id,
             session_name |-> session_name,
             transcript_dir |-> transcript_dir,
             session_type |-> session_type,
             contact_name |-> contact_name,
             display_name |-> display_name,
             tier |-> tier,
             participants |-> participants,
             created_at |-> now,
             updated_at |-> now,
             last_message_time |->
                 IF IsSome(existing) THEN Unwrap(existing).last_message_time
                 ELSE None])

\* SessionRegistry::register, before its save
Register(data, now, chat_id, session_name, transcript_dir, session_type, contact_name, display_name, tier, participants) ==
    LET existing == IF chat_id \in DOMAIN data THEN Some(data[chat_id]) ELSE None
    IN  MapInsert(data, chat_id,
            [chat_id |-> chat_id,
             session_name |-> session_name,
             transcript_dir |-> transcript_dir,
             session_type |-> session_type,
             contact_name |-> contact_name,
             display_name |-> display_name,
             tier |-> tier,
             participants |-> participants,
             created_at |-> IF IsSome(existing) THEN Unwrap(existing).created_at
                            ELSE now,
             updated_at |-> now,
             last_message_time |->
                 IF IsSome(existing) THEN Unwrap(existing).last_message_time
                 ELSE None])

\* SessionRegistry::update_last_message, before its save
UpdateLastMessage(data, now, chat_id) ==
    IF chat_id \in DOMAIN data
    THEN [data EXCEPT ![chat_id].last_message_time = Some(now),
                      ![chat_id].updated_at = now]
    ELSE data

\* SessionRegistry::remove, before its save
Remove(data, chat_id) == [c \in (DOMAIN data) \ {chat_id} |-> data[c]]

\* the JSON object of one entry without its last_message_time
SerializeEntryNoLastMessage(e) ==
    [k \in {"chat_id", "session_name", "transcript_dir", "type", "contact_name",
            "display_name", "tier", "participants", "created_at", "updated_at"} |->
        CASE k = "chat_id"        -> <<e.chat_id>>
          [] k = "session_name"   -> <<e.session_name>>
          [] k = "transcript_dir" -> <<e.transcript_dir>>
          [] k = "type"           -> <<e.session_type>>
          [] k = "contact_name"   -> e.contact_name
          [] k = "display_name"   -> e.display_name
          [] k = "tier"           -> e.tier
          [] k = "participants"   -> e.participants
          [] k = "created_at"     -> <<I64ToString(e.created_at)>>
          [] k = "updated_at"     -> <<I64ToString(e.updated_at)>>]

\* the JSON object serde writes for a SessionData: session_type is renamed
\* "type", a None is null (<<>>), timestamps are written as text, and
\* last_message_time is left out when it is None
SerializeEntry(e) ==
    LET keys == {"chat_id", "session_name", "transcript_dir", "type",
                 "contact_name", "display_name", "tier", "participants",
                 "created_at", "updated_at"}
                \cup (IF IsSome(e.last_message_time) THEN {"last_message_time"}
                      ELSE {})
    IN  [k \in keys |->
            CASE k = "chat_id"        -> <<e.chat_id>>
              [] k = "session_name"   -> <<e.session_name>>
              [] k = "transcript_dir" -> <<e.transcript_dir>>
              [] k = "type"           -> <<e.session_type>>
              [] k = "contact_name"   -> e.contact_name
              [] k = "display_name"   -> e.display_name
              [] k = "tier"           -> e.tier
              [] k = "participants"   -> e.participants
              [] k = "created_at"     -> <<I64ToString(e.created_at)>>
              [] k = "updated_at"     -> <<I64ToString(e.updated_at)>>
              [] k = "last_message_time" ->
                     <<I64ToString(Unwrap(e.last_message_time))>>]

\* serde_json::to_string_pretty(&self.data)
Serialize(data) == [c \in DOMAIN data |-> SerializeEntry(data[c])]

\* the SessionData serde reads from a JSON object: a missing
\* last_message_time is None
DeserializeEntry(o) ==
    [chat_id |-> o["chat_id"][1],
     session_name |-> o["session_name"][1],
     transcript_dir |-> o["transcript_dir"][1],
     session_type |-> o["type"][1],
     contact_name |-> o["contact_name"],
     display_name |-> o["display_name"],
     tier |-> o["tier"],
     participants |-> o["participants"],
     created_at |-> ParseDigits(o["created_at"][1], 1, 0),
     updated_at |-> ParseDigits(o["updated_at"][1], 1, 0),
     last_message_time |->
         IF "last_message_time" \in DOMAIN o
         THEN Some(ParseDigits(o["last_message_time"][1], 1, 0))
         ELSE None]

\* serde_json::from_str(&content)
Deserialize(doc) == [c \in DOMAIN doc |-> DeserializeEntry(doc[c])]

\* the content of a file that holds the whole document
Complete(doc) == [doc |-> doc, complete |-> TRUE]

\* the content of a file whose write did not finish
Partial == [doc |-> EmptyMap, complete |-> FALSE]

\* the registry file after a save that succeeded
Persisted(data) == Some(Complete(Serialize(data)))

\* SessionRegistry::load: an absent file is an empty registry, a file that
\* does not parse is an error
Load(file) ==
    IF IsNone(file) THEN [ok |-> TRUE, data |-> EmptyMap]
    ELSE IF Unwrap(file).complete
    THEN [ok |-> TRUE, data |-> Deserialize(Unwrap(file).doc)]
    ELSE [ok |-> FALSE, data |-> EmptyMap]

\* a write_all of the document into the registry file itself
WriteAllInPlace(file, tmp, doc, ok) ==
    [file |-> Some(IF ok THEN Complete(doc) ELSE Partial), tmp |-> tmp]

\* temp.write_all(json.as_bytes()) of save: the bytes go to the temp file
WriteAll(file, tmp, doc, ok) ==
    [file |-> file, tmp |-> Some(IF ok THEN Complete(doc) ELSE Partial)]

\* a persist that reports success and leaves the target as it was
PersistTempKeepsTarget(file, tmp) == [file |-> file, tmp |-> None]

\* temp.persist(&self.registry_path): the rename replaces the registry file
\* by the temp file
PersistTemp(file, tmp) == [file |-> tmp, tmp |-> None]

\* ------------------------------------------------------------------------
\* health.rs
\* ------------------------------------------------------------------------

\* the literal head of r"API Error[:\s]\(?(\d{3})"
NeedleApiError ==
    <<"A", "P", "I", " ", "E", "r", "r", "o", "r">>

NeedleOverloaded ==
    <<"o", "v", "e", "r", "l", "o", "a", "d", "e", "d", "_", "e", "r", "r",
      "o", "r">>

NeedleRateLimit ==
    <<"r", "a", "t", "e", "_", "l", "i", "m", "i", "t", "_", "e", "r", "r",
      "o", "r">>

NeedleAuthentication ==
    <<"a", "u", "t", "h", "e", "n", "t", "i", "c", "a", "t", "i", "o", "n",
      "_", "e", "r", "r", "o", "r">>

NeedleApiErrorType ==
    <<"a", "p", "i", "_", "e", "r", "r", "o", "r">>

NeedleTraceback ==
    <<"T", "r", "a", "c", "e", "b", "a", "c", "k", " ", "(", "m", "o", "s",
      "t", " ", "r", "e", "c", "e", "n", "t", " ", "c", "a", "l", "l", " ",
      "l", "a", "s", "t", ")">>

\* (?i)FATAL, searched in the lower-cased content
NeedleFatal ==
    <<"f", "a", "t", "a", "l">>

NeedlePanic ==
    <<"p", "a", "n", "i", "c", ":">>

NeedleHasCrashed ==
    <<"h", "a", "s", " ", "c", "r", "a", "s", "h", "e", "d">>

NeedleSessionCrashed ==
    <<"s", "e", "s", "s", "i", "o", "n", " ", "c", "r", "a", "s", "h", "e",
      "d">>

NeedleSegfault ==
    <<"S", "e", "g", "m", "e", "n", "t", "a", "t", "i", "o", "n", " ", "f",
      "a", "u", "l", "t">>

NeedleKilled ==
    <<"k", "i", "l", "l", "e", "d", " ", "b", "y", " ", "s", "i", "g", "n",
      "a", "l">>

NeedleToolConcurrency ==
    <<"t", "o", "o", "l", " ", "u", "s", "e", " ", "c", "o", "n", "c", "u",
      "r", "r", "e", "n", "c", "y">>

NeedleRewind ==
    <<"R", "u", "n", " ", "/", "r", "e", "w", "i", "n", "d", " ", "t", "o",
      " ", "r", "e", "c", "o", "v", "e", "r">>

NeedleEnomem ==
    <<"E", "N", "O", "M", "E", "M">>

NeedleOutOfMemory ==
    <<"o", "u", "t", " ", "o", "f", " ", "m", "e", "m", "o", "r", "y">>

\* (?i)connection refused, searched in the lower-cased content
NeedleConnectionRefused ==
    <<"c", "o", "n", "n", "e", "c", "t", "i", "o", "n", " ", "r", "e", "f",
      "u", "s", "e", "d">>

NeedleClaude ==
    <<"c", "l", "a", "u", "d", "e">>

\* Regex::is_match of a pattern that is a literal: the needle occurs in s
Contains(s, needle) ==
    \E i \in 1..(Len(s) - Len(needle) + 1) :
        SubSeq(s, i, i + Len(needle) - 1) = needle

\* the characters \s of a regex matches and str::trim removes
WhitespaceChars == {" ", "\n", "\t", "\r"}

\* r"API Error[:\s]\(?(\d{3})"
MatchesApiErrorStatus(s) ==
    \E i \in 1..(Len(s) - Len(NeedleApiError) + 1) :
        /\ SubSeq(s, i, i + Len(NeedleApiError) - 1) = NeedleApiError
        /\ LET j == i + Len(NeedleApiError)
               digitsAt(k) == /\ k + 2 <= Len(s)
                              /\ \A d \in k..(k + 2) : IsDigit(s[d])
           IN  /\ j <= Len(s)
               /\ s[j] \in {":"} \cup WhitespaceChars
               /\ \/ digitsAt(j + 1)
                  \/ j + 1 <= Len(s) /\ s[j + 1] = "(" /\ digitsAt(j + 2)

\* API_ERROR_PATTERNS.matches(content): the indices of the patterns of the
\* set that match
ApiErrorMatches(s) ==
    { p \in 1..5 :
        \/ p = 1 /\ MatchesApiErrorStatus(s)
        \/ p = 2 /\ Contains(s, NeedleOverloaded)
        \/ p = 3 /\ Contains(s, NeedleRateLimit)
        \/ p = 4 /\ Contains(s, NeedleAuthentication)
        \/ p = 5 /\ Contains(s, NeedleApiErrorType) }

\* the labels of FATAL_PATTERNS in the order of the list
FATAL_LABELS ==
    <<"python_traceback", "fatal", "panic", "crashed", "segfault", "killed",
      "tool_concurrency", "needs_rewind", "oom", "connection_refused">>

\* FATAL_PATTERNS[p].0.is_match(content)
FatalMatches(s, p) ==
    \/ p = 1 /\ Contains(s, NeedleTraceback)
    \/ p = 2 /\ Contains(ToLower(s), NeedleFatal)
    \/ p = 3 /\ Contains(s, NeedlePanic)
    \/ p = 4 /\ (Contains(s, NeedleHasCrashed) \/ Contains(s, NeedleSessionCrashed))
    \/ p = 5 /\ Contains(s, NeedleSegfault)
    \/ p = 6 /\ Contains(s, NeedleKilled)
    \/ p = 7 /\ Contains(s, NeedleToolConcurrency)
    \/ p = 8 /\ Contains(s, NeedleRewind)
    \/ p = 9 /\ (Contains(s, NeedleEnomem) \/ Contains(s, NeedleOutOfMemory))
    \/ p = 10 /\ Contains(ToLower(s), NeedleConnectionRefused)

SHELL_PROMPTS == {"$", "%", ">", "#"}

\* str::trim
Trim(s) ==
    LET inner == { i \in 1..Len(s) : s[i] \notin WhitespaceChars }
    IN  IF inner = {} THEN <<>>
        ELSE SubSeq(s, CHOOSE i \in inner : \A k \in inner : i <= k,
                       CHOOSE i \in inner : \A k \in inner : i >= k)

\* SHELL_PROMPTS.iter().any(|p| content_stripped.ends_with(*p))
EndsWithPrompt(s) ==
    LET content_stripped == Trim(s)
    IN  content_stripped # <<>> /\ content_stripped[Len(content_stripped)] \in SHELL_PROMPTS

Healthy == [healthy |-> TRUE, reason |-> "", label |-> ""]

Unhealthy(reason, label) == [healthy |-> FALSE, reason |-> reason, label |-> label]

CheckSessionContentFatalFirst(content) ==
    IF \E p \in 1..Len(FATAL_LABELS) : FatalMatches(content, p)
    THEN Unhealthy("FatalError",
                   FATAL_LABELS[CHOOSE p \in 1..Len(FATAL_LABELS) :
                                   /\ FatalMatches(content, p)
                                   /\ \A q \in 1..(p - 1) : ~FatalMatches(content, q)])
    ELSE IF Cardinality(ApiErrorMatches(content)) >= 3
    THEN Unhealthy("ApiErrorsPersistent", "")
    ELSE IF EndsWithPrompt(content) /\ ~Contains(ToLower(content), NeedleClaude)
    THEN Unhealthy("ClaudeNotRunning", "")
    ELSE Healthy

\* check_session_content
CheckSessionContent(content) ==
    LET api_error_count == Cardinality(ApiErrorMatches(content))
    IN  IF api_error_count >= 3
        THEN Unhealthy("ApiErrorsPersistent", "")
        ELSE IF \E p \in 1..Len(FATAL_LABELS) : FatalMatches(content, p)
        THEN Unhealthy("FatalError",
                       FATAL_LABELS[CHOOSE p \in 1..Len(FATAL_LABELS) :
                                       /\ FatalMatches(content, p)
                                       /\ \A q \in 1..(p - 1) : ~FatalMatches(content, q)])
        ELSE IF EndsWithPrompt(content) /\ ~Contains(ToLower(content), NeedleClaude)
        THEN Unhealthy("ClaudeNotRunning", "")
        ELSE Healthy

\* lines a captured pane can show
LineApiOverloaded ==
    <<"A", "P", "I", " ", "E", "r", "r", "o", "r", " ", "(", "5", "2", "9",
      ")", " ", "o", "v", "e", "r", "l", "o", "a", "d", "e", "d", "_", "e",
      "r", "r", "o", "r">>

LineApiShort ==
    <<"A", "P", "I", " ", "E", "r", "r", "o", "r", ":", " ", "5", "2", "9">>

LineRateLimit ==
    <<"r", "a", "t", "e", "_", "l", "i", "m", "i", "t", "_", "e", "r", "r",
      "o", "r">>

LineAuthentication ==
    <<"a", "u", "t", "h", "e", "n", "t", "i", "c", "a", "t", "i", "o", "n",
      "_", "e", "r", "r", "o", "r">>

LinePanic ==
    <<"p", "a", "n", "i", "c", ":", " ", "b", "o", "o", "m">>

LineFatal ==
    <<"F", "a", "t", "a", "l", ":", " ", "x">>

LineCrashed ==
    <<"s", "e", "s", "s", "i", "o", "n", " ", "c", "r", "a", "s", "h", "e",
      "d">>

LineClaude ==
    <<"[", "C", "l", "a", "u", "d", "e", "]", " ", "o", "k">>

LineZsh ==
    <<"m", "e", "@", "m", "a", "c", " ", "%", " ">>

LineBash ==
    <<"$">>

LineText ==
    <<"h", "e", "l", "l", "o">>

PaneLines ==
    {LineApiOverloaded, LineApiShort, LineRateLimit, LineAuthentication,
     LinePanic, LineFatal, LineCrashed, LineClaude, LineZsh, LineBash, LineText}

\* the lines of a pane joined as tmux capture-pane prints them
RECURSIVE JoinLines(_)
JoinLines(ls) ==
    IF ls = <<>> THEN <<>>
    ELSE ls[1] \o <<"\n">> \o JoinLines(Tail(ls))

\* the panes of up to n lines
RECURSIVE PanesUpTo(_)
PanesUpTo(n) ==
    IF n = 0 THEN { <<>> }
    ELSE PanesUpTo(n - 1) \cup
         { <<l>> \o p : l \in PaneLines, p \in { q \in PanesUpTo(n - 1) : Len(q) = n - 1 } }

\* ------------------------------------------------------------------------
\* session.rs: the session manager over the multiplexer
\* ------------------------------------------------------------------------

\* The commands the session manager runs, in the order it runs them
HasSessionCmd(name) == [cmd |-> "has-session", target |-> name, arg |-> <<>>]

KillSessionCmd(name) == [cmd |-> "kill-session", target |-> name, arg |-> <<>>]

SendLiteralCmd(name, text) == [cmd |-> "send-keys -l", target |-> name, arg |-> text]

SendEnterCmd(name) == [cmd |-> "send-keys Enter", target |-> name, arg |-> <<>>]

SleepCmd(ms) == [cmd |-> "sleep", target |-> <<>>, arg |-> <<ms>>]

\* the claude command line create_session builds for a tier
FamilyPrompt == "You are chatting with a FAMILY tier user. Read ~/.claude/skills/sms-assistant/family-rules.md FIRST."

FavoritesAllowed == "Read,WebSearch,WebFetch,Grep,Glob,Bash(osascript:*)"

FavoritesPrompt == "You are chatting with a FAVORITES tier user with LIMITED privileges."

\* `match tier` on the lowercased tier
ClaudeCmdAnyCase(tier) ==
    LET lower == ToLower(Spelling(tier))
    IN  IF lower \in {Spelling("admin"), Spelling("wife")}
        THEN <<"--dangerously-skip-permissions">>
        ELSE IF lower = Spelling("family")
        THEN <<"--dangerously-skip-permissions", "--append-system-prompt", FamilyPrompt>>
        ELSE <<"--dangerously-skip-permissions", "--allowedTools", FavoritesAllowed,
               "--append-system-prompt", FavoritesPrompt>>

\* the arguments that follow `cd <transcript_dir> && <claude>` in the command
\* line create_session builds for a tier
ClaudeCmd(tier) ==
    IF tier \in {"admin", "wife"} THEN <<"--dangerously-skip-permissions">>
    ELSE IF tier = "family"
    THEN <<"--dangerously-skip-permissions", "--append-system-prompt", FamilyPrompt>>
    ELSE <<"--dangerously-skip-permissions", "--allowedTools", FavoritesAllowed,
           "--append-system-prompt", FavoritesPrompt>>

NewSessionCmd(name, tier) == [cmd |-> "new-session", target |-> name, arg |-> <<ClaudeCmd(tier)>>]

\* session_exists: has-session -t =name succeeds
SessionExists(sess, name) == name \in DOMAIN sess

\* what new-session -d -s name does to the multiplexer: it refuses a name
\* that is taken
TmuxNewSession(sess, name, tier, ok) ==
    IF ok /\ name \notin DOMAIN sess
    THEN [ok |-> TRUE, sess |-> MapInsert(sess, name, tier)]
    ELSE [ok |-> FALSE, sess |-> sess]

SmOk(sess, cmds) == [ok |-> TRUE, error |-> "", sess |-> sess, cmds |-> cmds]

SmErr(error, sess, cmds) == [ok |-> FALSE, error |-> error, sess |-> sess, cmds |-> cmds]

CreateSessionNoExistsCheck(sess, name, transcript_dir, tier, o) ==
    IF ~o.dirOk THEN SmErr("Io", sess, <<>>)
    ELSE LET n == TmuxNewSession(sess, name, tier, o.tmuxOk)
         IN  IF ~n.ok THEN SmErr("Tmux", sess, <<NewSessionCmd(name, tier)>>)
             ELSE SmOk(n.sess, <<NewSessionCmd(name, tier), SleepCmd(2000)>>)

\* SessionManager::create_session; o tells whether create_dir_all and
\* new-session succeed
CreateSession(sess, name, transcript_dir, tier, o) ==
    IF SessionExists(sess, name) THEN SmOk(sess, <<HasSessionCmd(name)>>)
    ELSE IF ~o.dirOk THEN SmErr("Io", sess, <<HasSessionCmd(name)>>)
    ELSE LET n == TmuxNewSession(sess, name, tier, o.tmuxOk)
         IN  IF ~n.ok
             THEN SmErr("Tmux", sess, <<HasSessionCmd(name), NewSessionCmd(name, tier)>>)
             ELSE SmOk(n.sess, <<HasSessionCmd(name), NewSessionCmd(name, tier),
                                 SleepCmd(2000)>>)

\* SessionManager::kill_session; a session that is not there is tolerated,
\* any other failure of kill-session is an error
KillSession(sess, name, killOk) ==
    IF ~SessionExists(sess, name) THEN SmOk(sess, <<KillSessionCmd(name)>>)
    ELSE IF killOk
    THEN SmOk([n \in (DOMAIN sess) \ {name} |-> sess[n]], <<KillSessionCmd(name)>>)
    ELSE SmErr("Tmux", sess, <<KillSessionCmd(name)>>)

InjectTextEntersAlways(sess, name, text, o) ==
    IF ~SessionExists(sess, name) THEN SmErr("SessionNotFound", sess, <<HasSessionCmd(name)>>)
    ELSE SmOk(sess, <<HasSessionCmd(name), SendLiteralCmd(name, text),
                      SleepCmd(500), SendEnterCmd(name), SendEnterCmd(name)>>)

\* SessionManager::inject_text; o tells whether send-keys -l succeeds and
\* whether each of the two Enter commands can be run
InjectText(sess, name, text, o) ==
    IF ~SessionExists(sess, name)
    THEN SmErr("SessionNotFound", sess, <<HasSessionCmd(name)>>)
    ELSE IF ~o.textOk
    THEN SmErr("Tmux", sess, <<HasSessionCmd(name), SendLiteralCmd(name, text)>>)
    ELSE IF ~o.enter1
    THEN SmErr("Io", sess, <<HasSessionCmd(name), SendLiteralCmd(name, text),
                             SleepCmd(500), SendEnterCmd(name)>>)
    ELSE IF ~o.enter2
    THEN SmErr("Io", sess, <<HasSessionCmd(name), SendLiteralCmd(name, text),
                             SleepCmd(500), SendEnterCmd(name), SendEnterCmd(name)>>)
    ELSE SmOk(sess, <<HasSessionCmd(name), SendLiteralCmd(name, text),
                      SleepCmd(500), SendEnterCmd(name), SendEnterCmd(name)>>)

\* check_health without its session_exists test
CheckHealthCaptureFirst(sess, name, capture) ==
    IF IsNone(capture) THEN Unhealthy("SessionMissing", "")
    ELSE CheckSessionContent(JoinLines(Unwrap(capture)))

\* SessionManager::check_health; capture is the pane capture_pane returned,
\* None when it failed
CheckHealth(sess, name, capture) ==
    IF ~SessionExists(sess, name) THEN Unhealthy("SessionMissing", "")
    ELSE IF IsNone(capture) THEN Unhealthy("SessionMissing", "")
    ELSE CheckSessionContent(JoinLines(Unwrap(capture)))

\* a is the start of b
IsPrefixOf(a, b) == Len(a) <= Len(b) /\ SubSeq(b, 1, Len(a)) = a

\* The session a multiplexer command with `-t target` acts on: the session
\* of that exact name; failing that, unless the target was written with a
\* leading "=", the one session whose name starts with the target
ResolveTarget(sess, target, exact) ==
    IF target \in DOMAIN sess THEN Some(target)
    ELSE IF exact THEN None
    ELSE LET starts == { n \in DOMAIN sess : IsPrefixOf(target, n) }
         IN  IF Cardinality(starts) = 1 THEN Some(CHOOSE n \in starts : TRUE)
             ELSE None

\* the commands whose target the session manager writes as ={name}
WritesExactTarget(cmd) == cmd \in {"has-session", "kill-session", "capture-pane"}

\* ------------------------------------------------------------------------
\* main.rs: the health block of the loop
\* ------------------------------------------------------------------------

\* health_check_interval, in minutes
HealthInterval == 5

KillCall(name) == [call |-> "kill_session", name |-> name, transcript_dir |-> <<>>, tier |-> ""]

SleepCall == [call |-> "sleep 1 s", name |-> <<>>, transcript_dir |-> <<>>, tier |-> ""]

CreateCall(name, transcript_dir, tier) == [call |-> "create_session", name |-> name, transcript_dir |-> transcript_dir, tier |-> tier]

\* whether a sequence of commands has a new-session
Launches(cmds) == \E i \in 1..Len(cmds) : cmds[i].cmd = "new-session"

HealthEntryCreateFirst(sess, data, o) ==
    LET status == CheckHealth(sess, data.session_name, o.capture)
        tier == IF IsSome(data.tier) THEN Unwrap(data.tier) ELSE "favorite"
    IN  IF status.healthy
        THEN [sess |-> sess, status |-> status, name |-> data.session_name, calls |-> <<>>,
              restarted |-> FALSE, terminated |-> FALSE, launched |-> FALSE]
        ELSE LET c == CreateSession(sess, data.session_name, data.transcript_dir, tier, o)
                 k == KillSession(c.sess, data.session_name, o.killOk)
             IN  [sess |-> k.sess, status |-> status, name |-> data.session_name,
                  calls |-> <<CreateCall(data.session_name, data.transcript_dir, tier),
                              SleepCall, KillCall(data.session_name)>>,
                  restarted |-> c.ok,
                  terminated |-> ~SessionExists(k.sess, data.session_name),
                  launched |-> c.ok /\ Launches(c.cmds)]

\* one iteration of the loop over the registry entries: the session is
\* classified, and an unhealthy one is killed and created again
HealthEntry(sess, data, o) ==
    LET status == CheckHealth(sess, data.session_name, o.capture)
        tier == IF IsSome(data.tier) THEN Unwrap(data.tier) ELSE "favorite"
    IN  IF status.healthy
        THEN [sess |-> sess, status |-> status, name |-> data.session_name, calls |-> <<>>,
              restarted |-> FALSE, terminated |-> FALSE, launched |-> FALSE]
        ELSE LET k == KillSession(sess, data.session_name, o.killOk)
                 c == CreateSession(k.sess, data.session_name, data.transcript_dir, tier, o)
             IN  [sess |-> c.sess, status |-> status, name |-> data.session_name,
                  calls |-> <<KillCall(data.session_name), SleepCall,
                              CreateCall(data.session_name, data.transcript_dir, tier)>>,
                  restarted |-> c.ok,
                  terminated |-> ~SessionExists(k.sess, data.session_name),
                  launched |-> c.ok /\ Launches(c.cmds)]

\* ------------------------------------------------------------------------
\* reminder.rs: the reminder manager
\* ------------------------------------------------------------------------

\* DateTime::from_timestamp(0, 0)
Epoch == 0

\* A compiled schedule is the set of its firing instants: phase, phase +
\* period, phase + 2 * period, ...; period 0 is a schedule with the single
\* firing instant phase (a cron expression that names its year).
EveryTwo == [period |-> 2, phase |-> 0]

EveryThree == [period |-> 3, phase |-> 1]

OnceAtThree == [period |-> 0, phase |-> 3]

\* schedule.after(&t).next(): the first firing instant strictly after t
After(schedule, t) ==
    IF t < schedule.phase THEN Some(schedule.phase)
    ELSE IF schedule.period = 0 THEN None
    ELSE Some(schedule.phase + (((t - schedule.phase) \div schedule.period) + 1) * schedule.period)

\* format!("{}:{}", chat_id, idx)
ReminderKey(chat_id, i) == <<chat_id, i>>

\* the first loop of check_due: the reminders whose next firing instant
\* after their last_fired entry (the epoch when there is none) is <= now
DueKeys(rems, fired, now) ==
    { k \in UNION { { ReminderKey(c, i) : i \in 1..Len(rems[c]) } : c \in DOMAIN rems } :
        LET lastOf == IF k \in DOMAIN fired THEN fired[k] ELSE Epoch
            next == After(rems[k[1]][k[2]].schedule, lastOf)
        IN  IsSome(next) /\ Unwrap(next) <= now }

\* check_due that sets last_fired for the due reminders only
CheckDueTouchesDueOnly(rems, fired, now) ==
    LET due == DueKeys(rems, fired, now)
    IN  [due |-> due,
         last_fired |-> [k \in (DOMAIN fired) \cup due |->
                            IF k \in due THEN now ELSE fired[k]]]

CheckDueKeepsLastFired(rems, fired, now) ==
    [due |-> DueKeys(rems, fired, now), last_fired |-> fired]

\* ReminderManager::check_due: the due reminders, and last_fired set to now
\* for every reminder of every chat_id that has a due one
CheckDue(rems, fired, now) ==
    LET due == DueKeys(rems, fired, now)
        touched == UNION { { ReminderKey(k[1], i) : i \in 1..Len(rems[k[1]]) } : k \in due }
    IN  [due |-> due,
         last_fired |-> [k \in (DOMAIN fired) \cup touched |->
                            IF k \in touched THEN now ELSE fired[k]]]

\* the reminder block of cmd_run: the sessions the due prompts are injected
\* into, `registry.get(&chat_id)` leaving out the chats without an entry
ReminderInjections(rems, fired, data, now) ==
    { [chat_id |-> k[1], session_name |-> data[k[1]].session_name] :
        k \in { d \in CheckDue(rems, fired, now).due : d[1] \in DOMAIN data } }

\* ReminderManager::register with the reminders parse_reminders found
RemRegisterOp(rems, chat_id, parsed) ==
    IF parsed # <<>> THEN MapInsert(rems, chat_id, parsed)
    ELSE [c \in (DOMAIN rems) \ {chat_id} |-> rems[c]]

\* ReminderManager::unregister
RemUnregisterOp(rems, fired, chat_id) ==
    [reminders |-> [c \in (DOMAIN rems) \ {chat_id} |-> rems[c]],
     last_fired |-> [k \in { x \in DOMAIN fired : x[1] # chat_id } |-> fired[k]]]

\* ------------------------------------------------------------------------
\* State
\* ------------------------------------------------------------------------

VARIABLES
    db,           \* the message store, written by the messaging application
    cursorFile,   \* content of last_rowid.txt, None when the file is absent
    regFile,      \* the registry document of sessions.json
    sessions,     \* multiplexer sessions: name -> tier they were launched with
    pc,           \* position of the daemon process in cmd_run
    reg,          \* SessionRegistry.data
    last_rowid,   \* the in-memory cursor
    result,       \* rows returned by the poll statement, not yet processed
    batch,        \* new_messages of the current tick
    idx,          \* position of the `for msg in new_messages` loop
    last,         \* what the most recent loop iteration did (history)
    injTick,      \* ROWIDs delivered to a session in the current tick (history)
    injPast,      \* ROWIDs delivered in ticks that have ended (history)
    preexisting,  \* ROWIDs in the store at a startup without cursor file (history)
    clock,        \* the reading of Utc::now()
    regTmp,       \* the temp file of a save in progress, None when there is none
    regPc,        \* position of a registry operation in save
    regHist,      \* the last registry operation and what it found (history)
    reminders,    \* ReminderManager.reminders: chat_id -> list of reminders
    last_fired,   \* ReminderManager.last_fired: <<chat_id, index>> -> instant
    remHist,      \* the check_due calls made so far and what they returned, and
                  \* the chats registered since the last call (history)
    pane,         \* the lines of a captured pane
    verdict,      \* the HealthStatus check_session_content returned for it
    last_health_check,  \* the instant of the last health block of cmd_run
    smHist,       \* the last call of the session manager and what it did (history)
    tgPc,         \* the session-manager call in progress and its next command
    tgLast,       \* the session the last multiplexer command acted on (history)
    fnIn,         \* the argument a function is called with
    fnOut,        \* the function called last and what it returned
    hbTodo        \* registry entries the health block in progress has yet to visit

regVars == <<regTmp, regPc, regHist>>

remVars == <<reminders, last_fired, remHist>>

hsVars == <<pane, verdict>>

smVars == <<last_health_check, smHist, hbTodo>>

tgVars == <<tgPc, tgLast>>

fnVars == <<fnIn, fnOut>>

\* the variables the daemon specifications leave alone
auxVars == <<clock, regVars, remVars, hsVars, smVars, tgVars, fnVars>>

vars == <<db, cursorFile, regFile, sessions, pc, reg, last_rowid,
          result, batch, idx, last, injTick, injPast, preexisting,
          clock, regTmp, regPc, regHist, reminders, last_fired, remHist,
          pane, verdict, last_health_check, smHist, tgPc, tgLast, fnIn, fnOut,
          hbTodo>>

envVars == <<db, cursorFile, regFile, sessions>>

memVars == <<reg, last_rowid, result, batch, idx>>

histVars == <<last, injTick, injPast, preexisting>>

Running == {"poll", "rows", "msgs", "health", "remind"}

NotRunning == {"stopped", "startfail", "aborted", "crashed", "killed"}

NoLast == [rowid |-> 0, kind |-> "none", session |-> <<>>, delivered |-> FALSE, chat_id |-> <<>>, tier |-> ""]

NoRegHist == [op |-> "none", calls |-> 0, ok |-> TRUE, chat_id |-> <<>>, session_name |-> <<>>,
              tier |-> None, now |-> 0, existed |-> FALSE, fileBefore |-> None,
              first |-> EmptyMap, firstEver |-> EmptyMap]

NoRemHist == [checked |-> FALSE, prev |-> -1, repeat |-> FALSE, due |-> {}, log |-> <<>>, fresh |-> {}, first |-> {}]

NoSmPrev == [op |-> "none", name |-> <<>>, ok |-> TRUE, launched |-> FALSE]

NoSmHist == [calls |-> 0, op |-> "none", name |-> <<>>, tier |-> "", text |-> <<>>, textOk |-> TRUE, ok |-> TRUE, error |-> "", cmds |-> <<>>, before |-> EmptyMap, elapsed |-> 0, restarts |-> <<>>, prev |-> NoSmPrev, pending |-> {}, retry |-> FALSE]

TgIdle == [op |-> "idle", name |-> <<>>, step |-> "none"]

NoTgLast == [cmd |-> "none", requested |-> <<>>, actual |-> <<>>]

NoFnOut == [fn |-> "none", value |-> <<>>]

\* the registry, reminder, pane and session-manager variables at rest
StatefulAuxInit ==
    /\ tgPc = TgIdle
    /\ tgLast = NoTgLast
    /\ reminders = EmptyMap
    /\ last_fired = EmptyMap
    /\ remHist = NoRemHist
    /\ clock = 0
    /\ regTmp = None
    /\ regPc = "idle"
    /\ regHist = NoRegHist
    /\ pane = <<>>
    /\ verdict = None
    /\ last_health_check = 0
    /\ hbTodo = <<>>
    /\ smHist = NoSmHist

\* no pure function has been applied
FnAtRest == fnIn = <<>> /\ fnOut = NoFnOut

AuxInit == FnAtRest /\ StatefulAuxInit

Init ==
    /\ db = <<>>
    /\ cursorFile = None
    /\ regFile = None
    /\ sessions = EmptyMap
    /\ pc = "stopped"
    /\ reg = EmptyMap
    /\ last_rowid = 0
    /\ result = <<>>
    /\ batch = <<>>
    /\ idx = 1
    /\ last = NoLast
    /\ injTick = {}
    /\ injPast = {}
    /\ preexisting = {}
    /\ AuxInit

\* ------------------------------------------------------------------------
\* The messaging application writing the store
\* ------------------------------------------------------------------------

\* the rows the application inserts while the daemon runs: a message of an
\* authorized contact, one of an unauthorized contact, one whose join row
\* is not written yet, and one the reader cannot decode; a message is dated
\* by its arrival
AppRows(date) ==
    { TextRow(date, PhoneJane, FALSE, <<ChatJane>>),
      TextRow(date, PhoneBob, FALSE, <<ChatBob>>),
      TextRow(date, PhoneJane, FALSE, <<>>),
      MalformedRow(date) }

\* the daemon reads the store at startup, at the poll statement and at the
\* re-query: the application's writes are interleaved at these points
ReadPoints == NotRunning \cup {"poll", "rows"}

\* INSERT INTO message
AppendMessage ==
    /\ pc \in ReadPoints
    /\ Len(db) < MaxRowid
    /\ \E row \in AppRows(Len(db) + 1) : db' = Append(db, row)
    /\ UNCHANGED <<cursorFile, regFile, sessions, pc>>
    /\ UNCHANGED memVars
    /\ UNCHANGED histVars
    /\ UNCHANGED auxVars

\* the chats a message of a handle can be joined to
ChatsOf(phone) ==
    {ChatFam} \cup (IF phone = Some(PhoneJane) THEN {ChatJane} ELSE {})

\* INSERT INTO chat_message_join, after the message row is already visible
InsertJoin ==
    /\ pc \in ReadPoints
    /\ \E r \in 1..Len(db) :
          /\ Len(db[r].joins) = 0
          /\ \E c \in ChatsOf(db[r].phone) :
                db' = [db EXCEPT ![r].joins = <<c>>]
    /\ UNCHANGED <<cursorFile, regFile, sessions, pc>>
    /\ UNCHANGED memVars
    /\ UNCHANGED histVars
    /\ UNCHANGED auxVars

\* ------------------------------------------------------------------------
\* main.rs: cmd_run
\* ------------------------------------------------------------------------

\* the memory of a process that has ended
MemoryLost ==
    /\ reg' = EmptyMap
    /\ last_rowid' = 0
    /\ result' = <<>>
    /\ batch' = <<>>
    /\ idx' = 1

\* cmd_run up to the loop: registry.load, contacts.load (which may fail), the
\* cursor
Startup ==
    /\ pc \in NotRunning
    /\ \E contactsOk \in BOOLEAN :
          LET latest == GetLatestRowid(db)
              ok     == contactsOk /\ (IsSome(cursorFile) \/ latest.ok)
          IN  /\ pc' = IF ok THEN "poll" ELSE "startfail"
              /\ reg' = Load(regFile).data
              /\ last_rowid' = IF ~ok THEN 0
                               ELSE IF IsSome(cursorFile)
                               THEN ParseCursor(Unwrap(cursorFile))
                               ELSE latest.rowid
              /\ preexisting' = IF ok /\ IsNone(cursorFile)
                                THEN 1..Len(db) ELSE {}
    /\ result' = <<>>
    /\ batch' = <<>>
    /\ idx' = 1
    /\ last' = NoLast
    /\ injTick' = {}
    /\ UNCHANGED <<injPast>>
    /\ UNCHANGED envVars
    /\ UNCHANGED auxVars

\* messages.poll(last_rowid), up to the end of the poll statement
PollQuery ==
    /\ pc = "poll"
    /\ \E openOk \in BOOLEAN :
          IF openOk
          THEN /\ \E rows \in OrderByDate(db, ResultKeys(db, last_rowid)) :
                     result' = rows
               /\ pc' = "rows"
          ELSE /\ result' = <<>>
               /\ pc' = "health"
    /\ batch' = <<>>
    /\ idx' = 1
    /\ last' = NoLast
    /\ UNCHANGED <<reg, last_rowid>>
    /\ UNCHANGED <<injTick, injPast, preexisting>>
    /\ UNCHANGED envVars
    /\ UNCHANGED auxVars

\* messages.poll(last_rowid): the `for row_result in rows` loop, with the
\* re-queries of the rows that came back with a NULL chat.style
PollRows ==
    /\ pc = "rows"
    /\ \E reqFail \in SUBSET { result[i].rowid : i \in 1..Len(result) },
          attOk \in BOOLEAN :
          LET r == GetNewMessages(db, result, reqFail, attOk)
          IN  /\ batch' = r.messages
              /\ pc' = IF r.ok THEN "msgs" ELSE "health"
    /\ result' = <<>>
    /\ idx' = 1
    /\ UNCHANGED <<reg, last_rowid>>
    /\ UNCHANGED histVars
    /\ UNCHANGED envVars
    /\ UNCHANGED auxVars

\* a sender lookup that accepts every known member of a group chat
SenderInfoAnyMember(cache, msg) ==
    LET found == IF msg.is_group THEN LookupPhone(cache, msg.sender)
                 ELSE LookupPhone(cache, msg.chat_id)
    IN  IF IsSome(found) /\ (msg.is_group \/ IsBlessedTier(Unwrap(found).tier))
        THEN Some([name |-> Unwrap(found).name, tier |-> Unwrap(found).tier])
        ELSE None

\* the `let sender_info` of the message loop
SenderInfo(cache, msg) ==
    LET found == IF msg.is_group THEN LookupPhone(cache, msg.sender)
                 ELSE LookupPhone(cache, msg.chat_id)
    IN  IF IsSome(found) /\ IsBlessedTier(Unwrap(found).tier)
        THEN Some([name |-> Unwrap(found).name, tier |-> Unwrap(found).tier])
        ELSE None

\* the `let session_name` of the message loop
TargetSession(msg, contact_name) ==
    IF msg.is_group THEN SessionNameForGroup(msg.chat_id, msg.group_name)
    ELSE SessionNameForContact(contact_name)

SendOutcomes == {"ok", "text_failed", "enter_failed"}

\* the outcomes of the external steps of one loop iteration: creation of the
\* transcript directory, create_session, the save of register, the send-keys
\* calls of inject_text, the save of update_last_message
StepOutcomes ==
    [dirOk : BOOLEAN, createOk : BOOLEAN, regSaveOk : BOOLEAN,
     send : SendOutcomes, lastSaveOk : BOOLEAN]

\* one iteration of `for msg in new_messages` under the outcomes e
MessageStep(msg, e) ==
    LET advanced == Max(last_rowid, msg.rowid)
        skip(kind) == [abort |-> FALSE, last_rowid |-> advanced,
                       sessions |-> sessions, reg |-> reg, regFile |-> regFile,
                       kind |-> kind, session |-> <<>>, delivered |-> FALSE,
                       tier |-> ""]
        info == SenderInfo(ContactsCache, msg)
    IN  IF msg.is_from_me THEN skip("from_me")
        ELSE IF IsNone(info) THEN skip("unauthorized")
        ELSE
        LET contact_name == Unwrap(info).name
            tier         == Unwrap(info).tier
            session_name == TargetSession(msg, contact_name)
            exists       == session_name \in DOMAIN sessions
        IN  IF ~exists /\ ~e.dirOk
            THEN [abort |-> TRUE, last_rowid |-> last_rowid,
                  sessions |-> sessions, reg |-> reg, regFile |-> regFile,
                  kind |-> "aborted", session |-> session_name,
                  delivered |-> FALSE, tier |-> tier]
            ELSE IF ~exists /\ ~e.createOk
            THEN [skip("create_failed") EXCEPT !.session = session_name, !.tier = tier]
            ELSE
            LET sessions1 == IF exists THEN sessions
                             ELSE MapInsert(sessions, session_name, tier)
                reg1 == IF exists THEN reg
                        ELSE Register(reg, clock, msg.chat_id, session_name,
                                      session_name,
                                      IF msg.is_group THEN "group" ELSE "individual",
                                      Some(contact_name), msg.group_name, Some(tier),
                                      None)
                regFile1 == IF ~exists /\ e.regSaveOk THEN Persisted(reg1)
                            ELSE regFile
                injected == e.send = "ok"
                reg2 == IF injected THEN UpdateLastMessage(reg1, clock, msg.chat_id)
                        ELSE reg1
                regFile2 == IF injected /\ msg.chat_id \in DOMAIN reg1 /\ e.lastSaveOk
                            THEN Persisted(reg2) ELSE regFile1
            IN  [abort |-> FALSE, last_rowid |-> advanced,
                 sessions |-> sessions1, reg |-> reg2, regFile |-> regFile2,
                 kind |-> IF injected THEN "injected" ELSE "inject_failed",
                 session |-> session_name,
                 delivered |-> e.send # "text_failed", tier |-> tier]

\* the results one loop iteration can have
StepResults(msg) == { MessageStep(msg, e) : e \in StepOutcomes }

HandleMessage ==
    /\ pc = "msgs"
    /\ idx <= Len(batch)
    /\ LET msg == batch[idx]
       IN  \E h \in StepResults(msg) :
              /\ IF h.abort
                 THEN \* `ensure_transcript_dir(..)?` returns from cmd_run
                      /\ pc' = "aborted"
                      /\ MemoryLost
                 ELSE /\ pc' = "msgs"
                      /\ idx' = idx + 1
                      /\ last_rowid' = h.last_rowid
                      /\ reg' = h.reg
                      /\ UNCHANGED <<result, batch>>
              /\ sessions' = h.sessions
              /\ regFile' = h.regFile
              /\ last' = [rowid |-> msg.rowid, kind |-> h.kind,
                          session |-> h.session, delivered |-> h.delivered,
                          chat_id |-> msg.chat_id, tier |-> h.tier]
              /\ injTick' = IF h.delivered THEN injTick \cup {msg.rowid}
                            ELSE injTick
    /\ UNCHANGED <<db, cursorFile>>
    /\ UNCHANGED <<injPast, preexisting>>
    /\ UNCHANGED auxVars

\* the cursor write followed by the reminder block, the health block left
\* for later
SaveCursorThenReminders ==
    /\ pc = "msgs"
    /\ idx > Len(batch)
    /\ \E writeOk \in BOOLEAN :
          cursorFile' = IF writeOk THEN Some(I64ToString(last_rowid))
                        ELSE cursorFile
    /\ pc' = "remind"
    /\ UNCHANGED <<db, regFile, sessions>>
    /\ UNCHANGED memVars
    /\ UNCHANGED histVars
    /\ UNCHANGED auxVars

\* a cursor write that stores the ROWID of the message handled last
SaveCursorLastHandled ==
    /\ pc = "msgs"
    /\ idx > Len(batch)
    /\ \E writeOk \in BOOLEAN :
          cursorFile' = IF writeOk THEN Some(I64ToString(last.rowid))
                        ELSE cursorFile
    /\ pc' = "health"
    /\ UNCHANGED <<db, regFile, sessions>>
    /\ UNCHANGED memVars
    /\ UNCHANGED histVars
    /\ UNCHANGED auxVars

\* fs::write(&state_file, last_rowid.to_string()) after the message loop
SaveCursor ==
    /\ pc = "msgs"
    /\ idx > Len(batch)
    /\ \E writeOk \in BOOLEAN :
          cursorFile' = IF writeOk THEN Some(I64ToString(last_rowid))
                        ELSE cursorFile
    /\ pc' = "health"
    /\ UNCHANGED <<db, regFile, sessions>>
    /\ UNCHANGED memVars
    /\ UNCHANGED histVars
    /\ UNCHANGED auxVars

\* the restart of one registry entry's session in the health block
HealthOne(sess, data, unhealthyPane, killOk, createOk) ==
    LET name   == data.session_name
        exists == name \in DOMAIN sess
        tier   == IF IsSome(data.tier) THEN Unwrap(data.tier) ELSE "favorite"
    IN  IF exists /\ ~unhealthyPane THEN sess
        ELSE LET killed == IF exists /\ killOk
                           THEN [n \in (DOMAIN sess) \ {name} |-> sess[n]]
                           ELSE sess
             IN  IF name \in DOMAIN killed THEN killed
                 ELSE IF createOk THEN MapInsert(killed, name, tier)
                 ELSE killed

\* every arrangement of a set (HashMap iteration order)
RECURSIVE Arrangements(_)
Arrangements(S) ==
    IF S = {} THEN { <<>> }
    ELSE UNION { { <<x>> \o rest : rest \in Arrangements(S \ {x}) } : x \in S }

RECURSIVE HealthFrom(_, _, _, _, _)
HealthFrom(sess, snapshot, order, i, outcome) ==
    IF i > Len(order) THEN sess
    ELSE LET o == outcome[order[i]]
         IN  HealthFrom(HealthOne(sess, snapshot[order[i]], o[1], o[2], o[3]),
                        snapshot, order, i + 1, outcome)

\* the session tables the health block can leave behind: the entries are
\* visited in any order, the pane of an existing session is classified
\* healthy or not, kill and create succeed or fail
HealthResults ==
    { HealthFrom(sessions, reg, order, 1, outcome) :
        order \in Arrangements(DOMAIN reg),
        outcome \in [DOMAIN reg -> BOOLEAN \X BOOLEAN \X BOOLEAN] }

\* the health block of the loop: skipped until 5 minutes have elapsed
HealthStep ==
    /\ pc = "health"
    /\ \E due \in BOOLEAN :
          IF due THEN sessions' \in HealthResults ELSE sessions' = sessions
    /\ pc' = "remind"
    /\ UNCHANGED <<db, cursorFile, regFile>>
    /\ UNCHANGED memVars
    /\ UNCHANGED histVars
    /\ UNCHANGED auxVars

\* the reminder block and the sleep that ends the tick: when a minute has
\* elapsed, check_due(now) on the manager made by ReminderManager::new() at
\* startup, and each due prompt injected into the session of its chat_id
ReminderStep ==
    /\ pc = "remind"
    /\ pc' = "poll"
    /\ injPast' = injPast \cup injTick
    /\ injTick' = {}
    /\ \E elapsed \in BOOLEAN :
          IF ~elapsed THEN last_fired' = last_fired /\ last' = NoLast
          ELSE \E now \in 0..MaxNow :
                  LET inj == ReminderInjections(reminders, last_fired, reg, now)
                  IN  /\ last_fired' = CheckDue(reminders, last_fired, now).last_fired
                      /\ IF inj = {} THEN last' = NoLast
                         ELSE \E t \in inj, injectOk \in BOOLEAN :
                                 last' = IF injectOk
                                         THEN [NoLast EXCEPT !.kind = "reminder",
                                                             !.session = t.session_name,
                                                             !.chat_id = t.chat_id]
                                         ELSE NoLast
    /\ UNCHANGED <<preexisting>>
    /\ UNCHANGED memVars
    /\ UNCHANGED envVars
    /\ UNCHANGED <<clock, regVars, reminders, remHist, hsVars, smVars, tgVars, fnVars>>

\* what the death of the process leaves in the cursor file: fs::write
\* truncates the file before it writes the digits, so a death during the
\* write that follows the message loop can leave it empty
DeathLeaves ==
    IF pc = "msgs" /\ idx > Len(batch) THEN {cursorFile, Some(<<>>)}
    ELSE {cursorFile}

\* the process dies (power loss, SIGKILL, panic)
Crash ==
    /\ pc \in Running
    /\ pc' = "crashed"
    /\ MemoryLost
    /\ cursorFile' \in DeathLeaves
    /\ UNCHANGED <<db, regFile, sessions>>
    /\ UNCHANGED histVars
    /\ UNCHANGED auxVars

\* SIGTERM or SIGINT: cmd_run installs no handler, the default action
\* terminates the process where it stands
Signal ==
    /\ pc \in Running
    /\ pc' = "killed"
    /\ MemoryLost
    /\ cursorFile' \in DeathLeaves
    /\ UNCHANGED <<db, regFile, sessions>>
    /\ UNCHANGED histVars
    /\ UNCHANGED auxVars

Next ==
    \/ AppendMessage
    \/ InsertJoin
    \/ Startup
    \/ PollQuery
    \/ PollRows
    \/ HandleMessage
    \/ SaveCursor
    \/ HealthStep
    \/ ReminderStep
    \/ Crash
    \/ Signal

Spec == Init /\ [][Next]_vars

\* ------------------------------------------------------------------------
\* The running daemon over a store drawn from a catalogue of rows
\* ------------------------------------------------------------------------

\* rows that differ in how their text is resolved: text in the blob; a voice
\* message with an attachment; a voice message without; an archived empty
\* string; an attachment flag without a usable attachment row
ContentRows ==
    { MsgRow(1, Some(PhoneJane), None, Some(BlobTyped), FALSE, <<>>, FALSE, <<ChatJane>>),
      MsgRow(1, Some(PhoneJane), Some(TextObj), Some(BlobAudio), TRUE,
             <<Some(AttachmentFile)>>, FALSE, <<ChatJane>>),
      MsgRow(1, Some(PhoneJane), Some(TextObj), Some(BlobAudio), FALSE, <<>>,
             FALSE, <<ChatJane>>),
      MsgRow(1, Some(PhoneJane), Some(TextEmpty), Some(BlobPlistEmpty), FALSE,
             <<>>, FALSE, <<ChatJane>>),
      MsgRow(1, Some(PhoneJane), None, Some(BlobGarbage), TRUE, <<None>>, FALSE,
             <<ChatJane>>) }

\* rows that differ in their date and their chat_message_join rows
OrderRows ==
    { TextRow(1, PhoneJane, FALSE, <<>>),
      TextRow(1, PhoneJane, FALSE, <<ChatJane>>),
      TextRow(1, PhoneJane, FALSE, <<ChatJane, ChatFam>>),
      TextRow(2, PhoneJane, FALSE, <<ChatJane>>) }

\* rows that differ in their sender
SenderRows ==
    { TextRow(1, PhoneJane, TRUE, <<ChatJane>>),
      TextRow(1, PhoneBob, FALSE, <<ChatBob>>),
      TextRow(1, PhoneBob, FALSE, <<ChatFam>>),
      TextRow(1, PhoneStranger, FALSE, <<ChatStranger>>),
      MsgRow(1, None, Some(TextHi), None, FALSE, <<>>, FALSE, <<ChatJane>>),
      MalformedRow(1) }

ReaderRows == ContentRows \cup OrderRows \cup SenderRows

Stores == UNION { [1..n -> ReaderRows] : n \in 0..MaxRows }

\* the daemon about to poll, with a cursor file left by an earlier run
RunInit ==
    /\ db \in Stores
    /\ last_rowid \in 0..Len(db)
    /\ cursorFile = Some(I64ToString(last_rowid))
    /\ regFile = None
    /\ sessions = EmptyMap
    /\ pc = "poll"
    /\ reg = EmptyMap
    /\ result = <<>>
    /\ batch = <<>>
    /\ idx = 1
    /\ last = NoLast
    /\ injTick = {}
    /\ injPast = {}
    /\ preexisting = {}
    /\ AuxInit

\* one tick, up to the cursor write
RunNext ==
    \/ InsertJoin
    \/ PollQuery
    \/ PollRows
    \/ HandleMessage
    \/ SaveCursor

RunSpec == RunInit /\ [][RunNext]_vars

\* ------------------------------------------------------------------------
\* The message loop with an admin and a family contact who are members of
\* the same group
\* ------------------------------------------------------------------------

TierRows ==
    { TextRow(1, PhoneJane, FALSE, <<ChatJane>>),
      TextRow(1, PhoneJane, FALSE, <<ChatFam>>),
      TextRow(1, PhoneFay, FALSE, <<ChatFay>>),
      TextRow(1, PhoneFay, FALSE, <<ChatFam>>) }

TierStores == UNION { [1..n -> TierRows] : n \in 0..MaxRows }

TierInit ==
    /\ db \in TierStores
    /\ last_rowid \in 0..Len(db)
    /\ cursorFile = Some(I64ToString(last_rowid))
    /\ regFile = None
    /\ sessions = EmptyMap
    /\ pc = "poll"
    /\ reg = EmptyMap
    /\ result = <<>>
    /\ batch = <<>>
    /\ idx = 1
    /\ last = NoLast
    /\ injTick = {}
    /\ injPast = {}
    /\ preexisting = {}
    /\ AuxInit

TierNext ==
    \/ PollQuery
    \/ PollRows
    \/ HandleMessage
    \/ SaveCursor

TierSpec == TierInit /\ [][TierNext]_vars

\* ------------------------------------------------------------------------
\* The registry under the calls of its interface, with save in its steps
\* ------------------------------------------------------------------------

\* the daemon variables the registry specification leaves alone
regRest == <<db, cursorFile, sessions, pc, last_rowid, result, batch, idx,
             last, injTick, injPast, preexisting, remVars, hsVars, smVars, tgVars, fnVars>>

RegChats == {PhoneJane, GroupIdent}

RegNames == {SessionNameForContact(NameJane),
             SessionNameForGroup(GroupIdent, Some(NameFam))}

\* the tier a session of each name is registered with
RegTier(n) == IF n = SessionNameForContact(NameJane) THEN "admin" ELSE "family"

\* the daemon is not running
DaemonAtRest ==
    /\ db = <<>>
    /\ cursorFile = None
    /\ sessions = EmptyMap
    /\ pc = "stopped"
    /\ last_rowid = 0
    /\ result = <<>>
    /\ batch = <<>>
    /\ idx = 1
    /\ last = NoLast
    /\ injTick = {}
    /\ injPast = {}
    /\ preexisting = {}

RegInit ==
    /\ DaemonAtRest
    /\ regFile = None
    /\ reg = EmptyMap
    /\ AuxInit

\* time passes
RegTick ==
    /\ clock < MaxClock
    /\ clock' = clock + 1
    /\ UNCHANGED <<reg, regFile, regTmp, regPc, regHist>>
    /\ UNCHANGED regRest

\* registry.register(..) up to its save
RegRegister ==
    /\ regPc = "idle"
    /\ regHist.calls < MaxCalls
    /\ \E c \in RegChats, n \in RegNames :
          /\ reg' = Register(reg, clock, c, n, n,
                             IF c = GroupIdent THEN "group" ELSE "individual",
                             Some(NameJane), None, Some(RegTier(n)), None)
          /\ regHist' = [regHist EXCEPT
                !.op = "register", !.calls = @ + 1, !.ok = FALSE, !.chat_id = c,
                !.session_name = n, !.tier = Some(RegTier(n)), !.now = clock,
                !.existed = c \in DOMAIN reg, !.fileBefore = regFile,
                !.first = IF c \in DOMAIN reg THEN @ ELSE MapInsert(@, c, clock),
                !.firstEver = IF c \in DOMAIN @ THEN @ ELSE MapInsert(@, c, clock)]
    /\ regPc' = "save"
    /\ UNCHANGED <<clock, regFile, regTmp>>
    /\ UNCHANGED regRest

\* registry.update_last_message(..) up to its save; Ok(()) without a save
\* when the chat_id is not registered
RegUpdate ==
    /\ regPc = "idle"
    /\ regHist.calls < MaxCalls
    /\ \E c \in RegChats :
          /\ reg' = UpdateLastMessage(reg, clock, c)
          /\ regHist' = [regHist EXCEPT
                !.op = "update", !.calls = @ + 1, !.ok = c \notin DOMAIN reg, !.chat_id = c,
                !.now = clock, !.existed = c \in DOMAIN reg,
                !.fileBefore = regFile]
          /\ regPc' = IF c \in DOMAIN reg THEN "save" ELSE "idle"
    /\ UNCHANGED <<clock, regFile, regTmp>>
    /\ UNCHANGED regRest

\* registry.remove(..) up to its save; Ok(None) without a save when the
\* chat_id is not registered
RegRemove ==
    /\ regPc = "idle"
    /\ regHist.calls < MaxCalls
    /\ \E c \in RegChats :
          /\ reg' = Remove(reg, c)
          /\ regHist' = [regHist EXCEPT
                !.op = "remove", !.calls = @ + 1, !.ok = c \notin DOMAIN reg, !.chat_id = c,
                !.now = clock, !.existed = c \in DOMAIN reg,
                !.fileBefore = regFile,
                !.first = [x \in (DOMAIN @) \ {c} |-> @[x]]]
          /\ regPc' = IF c \in DOMAIN reg THEN "save" ELSE "idle"
    /\ UNCHANGED <<clock, regFile, regTmp>>
    /\ UNCHANGED regRest

\* registry.load(): a file that does not parse leaves the map as it was
RegLoad ==
    /\ regPc = "idle"
    /\ regHist.calls < MaxCalls
    /\ LET l == Load(regFile)
           d == IF l.ok THEN l.data ELSE reg
       IN  /\ reg' = d
           /\ regHist' = [regHist EXCEPT
                 !.op = "load", !.calls = @ + 1, !.ok = l.ok, !.now = clock,
                 !.fileBefore = regFile,
                 !.first = [c \in DOMAIN d |-> d[c].created_at]]
    /\ UNCHANGED <<clock, regFile, regTmp, regPc>>
    /\ UNCHANGED regRest

\* save: create_dir_all and NamedTempFile::new_in(parent)
SaveCreate ==
    /\ regPc = "save"
    /\ \E ok \in BOOLEAN :
          IF ok THEN /\ regTmp' = Some(Partial)
                     /\ regPc' = "created"
                ELSE /\ regTmp' = regTmp
                     /\ regPc' = "idle"
    /\ UNCHANGED <<clock, reg, regFile, regHist>>
    /\ UNCHANGED regRest

\* save: to_string_pretty and write_all
SaveWrite ==
    /\ regPc = "created"
    /\ \E ok \in BOOLEAN :
          LET w == WriteAll(regFile, regTmp, Serialize(reg), ok)
          IN  /\ regFile' = w.file
              /\ regTmp' = w.tmp
              /\ regPc' = IF ok THEN "written" ELSE "dropping"
    /\ UNCHANGED <<clock, reg, regHist>>
    /\ UNCHANGED regRest

\* save: sync_all
SaveSync ==
    /\ regPc = "written"
    /\ \E ok \in BOOLEAN : regPc' = IF ok THEN "synced" ELSE "dropping"
    /\ UNCHANGED <<clock, reg, regFile, regTmp, regHist>>
    /\ UNCHANGED regRest

\* save: persist
SavePersist ==
    /\ regPc = "synced"
    /\ \E ok \in BOOLEAN :
          IF ok
          THEN LET p == PersistTemp(regFile, regTmp)
               IN  /\ regFile' = p.file
                   /\ regTmp' = p.tmp
                   /\ regPc' = "idle"
                   /\ regHist' = [regHist EXCEPT !.ok = TRUE]
          ELSE /\ regPc' = "dropping"
               /\ UNCHANGED <<regFile, regTmp, regHist>>
    /\ UNCHANGED <<clock, reg>>
    /\ UNCHANGED regRest

\* save returns the error: the NamedTempFile is dropped, which deletes it
SaveDrop ==
    /\ regPc = "dropping"
    /\ regTmp' = None
    /\ regPc' = "idle"
    /\ UNCHANGED <<clock, reg, regFile, regHist>>
    /\ UNCHANGED regRest

\* the process dies and a new one starts with SessionRegistry::new; a temp
\* file left behind is never read again
RegCrash ==
    /\ reg' = EmptyMap
    /\ regTmp' = None
    /\ regPc' = "idle"
    /\ regHist' = [regHist EXCEPT !.op = "crash", !.ok = TRUE,
                                  !.fileBefore = regFile, !.first = EmptyMap]
    /\ UNCHANGED <<clock, regFile>>
    /\ UNCHANGED regRest

RegNext ==
    \/ RegTick
    \/ RegRegister
    \/ RegUpdate
    \/ RegRemove
    \/ RegLoad
    \/ SaveCreate
    \/ SaveWrite
    \/ SaveSync
    \/ SavePersist
    \/ SaveDrop
    \/ RegCrash

RegSpec == RegInit /\ [][RegNext]_vars

\* ------------------------------------------------------------------------
\* The reminder manager under register, unregister and check_due
\* ------------------------------------------------------------------------

remRest == <<db, cursorFile, regFile, sessions, pc, reg, last_rowid, result,
             batch, idx, last, injTick, injPast, preexisting,
             regVars, hsVars, smVars, tgVars, fnVars>>

RemChats == {PhoneJane, PhoneBob}

\* what parse_reminders returns for the notes of a contact
ParsedNotes ==
    { <<>>,
      <<[schedule |-> EveryTwo, prompt |-> "Ping"]>>,
      <<[schedule |-> EveryThree, prompt |-> "Pong"],
        [schedule |-> OnceAtThree, prompt |-> "Once"]>> }

RemInit ==
    /\ DaemonAtRest
    /\ regFile = None
    /\ reg = EmptyMap
    /\ AuxInit

\* time passes
RemTick ==
    /\ clock < MaxNow
    /\ clock' = clock + 1
    /\ UNCHANGED <<reminders, last_fired, remHist>>
    /\ UNCHANGED remRest

\* the entries of the log that belong to other chats
LogWithout(log, chat_id) == SelectSeq(log, LAMBDA e : e.chat_id # chat_id)

\* manager.register(chat_id, notes): the reminders of the notes replace those
\* the chat_id had
RemRegister ==
    /\ \E c \in RemChats, parsed \in ParsedNotes :
          /\ reminders' = RemRegisterOp(reminders, c, parsed)
          /\ remHist' = [remHist EXCEPT !.prev = -1, !.repeat = FALSE,
                                        !.checked = FALSE,
                                        !.log = LogWithout(@, c),
                                        !.fresh = IF parsed # <<>> THEN @ \cup {c} ELSE @ \ {c},
                                        !.first = {}]
    /\ UNCHANGED <<clock, last_fired>>
    /\ UNCHANGED remRest

\* manager.unregister(chat_id)
RemUnregister ==
    /\ \E c \in DOMAIN reminders :
          LET u == RemUnregisterOp(reminders, last_fired, c)
          IN  /\ reminders' = u.reminders
              /\ last_fired' = u.last_fired
              /\ remHist' = [remHist EXCEPT !.prev = -1, !.repeat = FALSE,
                                            !.checked = FALSE,
                                            !.log = LogWithout(@, c),
                                            !.fresh = @ \ {c},
                                            !.first = {}]
    /\ UNCHANGED clock
    /\ UNCHANGED remRest

\* manager.check_due(now) with now the reading of the clock
RemCheck ==
    /\ LET r == CheckDue(reminders, last_fired, clock)
           produced(k) ==
               [chat_id |-> k[1], idx |-> k[2],
                prompt |-> reminders[k[1]][k[2]].prompt,
                instant |-> Unwrap(After(reminders[k[1]][k[2]].schedule,
                               IF k \in DOMAIN last_fired THEN last_fired[k] ELSE Epoch)),
                now |-> clock]
           RECURSIVE Append_(_, _)
           Append_(log, ks) ==
               IF ks = {} THEN log
               ELSE LET k == CHOOSE x \in ks : TRUE
                    IN  Append_(Append(log, produced(k)), ks \ {k})
       IN  /\ last_fired' = r.last_fired
           /\ remHist' = [checked |-> TRUE, prev |-> clock,
                          repeat |-> (remHist.prev = clock),
                          due |-> { <<k[1], reminders[k[1]][k[2]].prompt>> : k \in r.due },
                          log |-> Append_(remHist.log, r.due),
                          fresh |-> {}, first |-> remHist.fresh]
    /\ UNCHANGED <<clock, reminders>>
    /\ UNCHANGED remRest

RemNext ==
    \/ RemTick
    \/ RemRegister
    \/ RemUnregister
    \/ RemCheck

RemSpec == RemInit /\ [][RemNext]_vars

\* ------------------------------------------------------------------------
\* check_session_content over the panes a session can show
\* ------------------------------------------------------------------------

hsRest == <<db, cursorFile, regFile, sessions, pc, reg, last_rowid, result,
            batch, idx, last, injTick, injPast, preexisting,
            clock, regVars, remVars, smVars, tgVars, fnVars>>

HsInit ==
    /\ DaemonAtRest
    /\ regFile = None
    /\ reg = EmptyMap
    /\ AuxInit

\* the session prints one more line
HsOutput ==
    /\ Len(pane) < MaxLines
    /\ \E l \in PaneLines : pane' = Append(pane, l)
    /\ verdict' = None
    /\ UNCHANGED hsRest

\* check_session_content(&content) on the captured pane
HsCheck ==
    /\ verdict' = Some(CheckSessionContent(JoinLines(pane)))
    /\ pane' = pane
    /\ UNCHANGED hsRest

HsNext ==
    \/ HsOutput
    \/ HsCheck

HsSpec == HsInit /\ [][HsNext]_vars

\* ------------------------------------------------------------------------
\* The session manager under its calls and the health block of the loop
\* ------------------------------------------------------------------------

smRest == <<db, cursorFile, regFile, pc, reg, last_rowid, result,
            batch, idx, last, injTick, injPast, preexisting,
            regVars, remVars, hsVars, tgVars, fnVars, hbTodo>>

SmNames == RegNames

SmTiers == {"admin", "family"}

\* config.transcripts_dir.join(&session_name)
TranscriptDir(name) == <<"t", "/">> \o name

\* registries the daemon can hold: empty, one contact, a contact and a group
\* registered without tier
SmRegistryJane ==
    Register(EmptyMap, 0, PhoneJane, SessionNameForContact(NameJane),
             TranscriptDir(SessionNameForContact(NameJane)), "individual",
             Some(NameJane), None, Some("admin"), None)

SmRegistryJaneFam ==
    Register(SmRegistryJane, 0, GroupIdent, SessionNameForGroup(GroupIdent, Some(NameFam)),
             TranscriptDir(SessionNameForGroup(GroupIdent, Some(NameFam))), "group",
             None, Some(NameFam), None, None)

SmRegistries == {EmptyMap, SmRegistryJane, SmRegistryJaneFam}

\* whether create_dir_all and new-session succeed
CreateOutcomes ==
    { [dirOk |-> TRUE, tmuxOk |-> TRUE],
      [dirOk |-> FALSE, tmuxOk |-> TRUE],
      [dirOk |-> TRUE, tmuxOk |-> FALSE] }

\* whether send-keys -l succeeds and the Enter commands can be run
InjectOutcomes ==
    { [textOk |-> TRUE, enter1 |-> TRUE, enter2 |-> TRUE],
      [textOk |-> FALSE, enter1 |-> TRUE, enter2 |-> TRUE],
      [textOk |-> TRUE, enter1 |-> FALSE, enter2 |-> TRUE],
      [textOk |-> TRUE, enter1 |-> TRUE, enter2 |-> FALSE] }

\* what capture_pane returns for a session in the health block
Captures == {None, Some(<<LineClaude, LineText>>), Some(<<LinePanic>>)}

HealthOutcomes ==
    { [capture |-> c, killOk |-> k, dirOk |-> o.dirOk, tmuxOk |-> o.tmuxOk] :
        c \in Captures, k \in BOOLEAN, o \in CreateOutcomes }

\* the loop `for (chat_id, data) in registry.all().clone()` from its i-th
\* entry on
RECURSIVE HealthBlock(_, _, _, _, _)
HealthBlock(sess, snapshot, order, i, outcome) ==
    IF i > Len(order) THEN [sess |-> sess, restarts |-> <<>>]
    ELSE LET e == HealthEntry(sess, snapshot[order[i]], outcome[order[i]])
             rest == HealthBlock(e.sess, snapshot, order, i + 1, outcome)
         IN  [sess |-> rest.sess,
              restarts |-> <<[chat_id |-> order[i], name |-> e.name,
                              status |-> e.status, calls |-> e.calls,
                              restarted |-> e.restarted, terminated |-> e.terminated,
                              launched |-> e.launched]>> \o rest.restarts]

SmInit ==
    /\ DaemonAtRest
    /\ regFile = None
    /\ reg \in SmRegistries
    /\ AuxInit

SmPrev == [op |-> smHist.op, name |-> smHist.name, ok |-> smHist.ok, launched |-> Launches(smHist.cmds)]

\* a minute passes
SmTick ==
    /\ clock < MaxMinutes
    /\ clock' = clock + 1
    /\ UNCHANGED <<sessions, last_health_check, smHist>>
    /\ UNCHANGED smRest

\* session_mgr.create_session(name, transcript_dir, tier)
SmCreate ==
    /\ smHist.calls < MaxSmCalls
    /\ \E name \in SmNames, tier \in SmTiers, o \in CreateOutcomes :
          LET r == CreateSession(sessions, name, TranscriptDir(name), tier, o)
          IN  /\ sessions' = r.sess
              /\ smHist' = [NoSmHist EXCEPT
                    !.op = "create", !.name = name, !.tier = tier, !.ok = r.ok,
                    !.error = r.error, !.cmds = r.cmds, !.before = sessions,
                    !.prev = SmPrev, !.calls = smHist.calls + 1]
    /\ UNCHANGED <<clock, last_health_check>>
    /\ UNCHANGED smRest

\* session_mgr.kill_session(name)
SmKill ==
    /\ smHist.calls < MaxSmCalls
    /\ \E name \in SmNames, killOk \in BOOLEAN :
          LET r == KillSession(sessions, name, killOk)
          IN  /\ sessions' = r.sess
              /\ smHist' = [NoSmHist EXCEPT
                    !.op = "kill", !.name = name, !.ok = r.ok,
                    !.error = r.error, !.cmds = r.cmds, !.before = sessions,
                    !.prev = SmPrev, !.calls = smHist.calls + 1]
    /\ UNCHANGED <<clock, last_health_check>>
    /\ UNCHANGED smRest

\* session_mgr.inject_text(name, text)
SmInject ==
    /\ smHist.calls < MaxSmCalls
    /\ \E name \in SmNames, o \in InjectOutcomes :
          LET r == InjectText(sessions, name, TextHi, o)
          IN  /\ sessions' = r.sess
              /\ smHist' = [NoSmHist EXCEPT
                    !.op = "inject", !.name = name, !.text = TextHi,
                    !.textOk = o.textOk, !.ok = r.ok,
                    !.error = r.error, !.cmds = r.cmds, !.before = sessions,
                    !.prev = SmPrev, !.calls = smHist.calls + 1]
    /\ UNCHANGED <<clock, last_health_check>>
    /\ UNCHANGED smRest

\* a session ends by itself
SmDie ==
    /\ smHist.calls < MaxSmCalls
    /\ \E name \in DOMAIN sessions :
          /\ sessions' = [n \in (DOMAIN sessions) \ {name} |-> sessions[n]]
          /\ smHist' = [NoSmHist EXCEPT !.op = "die", !.name = name,
                                        !.before = sessions, !.prev = SmPrev, !.calls = smHist.calls + 1]
    /\ UNCHANGED <<clock, last_health_check>>
    /\ UNCHANGED smRest

\* the health block of one iteration of the loop: nothing until
\* health_check_interval has elapsed
SmHealth ==
    /\ smHist.calls < MaxSmCalls
    /\ IF clock - last_health_check >= HealthInterval
       THEN \E order \in Arrangements(DOMAIN reg), outcome \in [DOMAIN reg -> HealthOutcomes] :
               LET b == HealthBlock(sessions, reg, order, 1, outcome)
               IN  /\ sessions' = b.sess
                   /\ last_health_check' = clock
                   /\ smHist' = [NoSmHist EXCEPT
                         !.op = "health", !.before = sessions,
                         !.elapsed = clock - last_health_check,
                         !.restarts = b.restarts, !.prev = SmPrev, !.calls = smHist.calls + 1]
       ELSE /\ smHist' = [NoSmHist EXCEPT
                  !.op = "no health", !.before = sessions,
                  !.elapsed = clock - last_health_check, !.prev = SmPrev, !.calls = smHist.calls + 1]
            /\ UNCHANGED <<sessions, last_health_check>>
    /\ UNCHANGED clock
    /\ UNCHANGED smRest

SmNext ==
    \/ SmTick
    \/ SmCreate
    \/ SmKill
    \/ SmInject
    \/ SmDie
    \/ SmHealth

SmSpec == SmInit /\ [][SmNext]_vars

\* ------------------------------------------------------------------------
\* The commands of the session manager against sessions that come and go
\* ------------------------------------------------------------------------

tgRest == <<db, cursorFile, regFile, pc, reg, last_rowid, result,
            batch, idx, last, injTick, injPast, preexisting,
            clock, regVars, remVars, hsVars, smVars, fnVars>>

\* the session names of the contacts "Jane" and "Jane Doe"
TgNames == {SessionNameForContact(<<"J", "a", "n", "e">>), SessionNameForContact(NameJane)}

TgInit ==
    /\ DaemonAtRest
    /\ regFile = None
    /\ reg = EmptyMap
    /\ AuxInit

\* a session is started outside the call in progress
TgAppear ==
    /\ \E n \in TgNames \ DOMAIN sessions : sessions' = MapInsert(sessions, n, "admin")
    /\ UNCHANGED tgVars
    /\ UNCHANGED tgRest

\* a session ends
TgDisappear ==
    /\ \E n \in DOMAIN sessions : sessions' = [x \in (DOMAIN sessions) \ {n} |-> sessions[x]]
    /\ UNCHANGED tgVars
    /\ UNCHANGED tgRest

\* session_exists, kill_session, inject_text or capture_pane is called
TgCall ==
    /\ tgPc.op = "idle"
    /\ \E op \in {"exists", "kill", "inject", "capture"}, n \in TgNames :
          tgPc' = [op |-> op, name |-> n,
                   step |-> IF op = "kill" THEN "kill-session" ELSE "has-session"]
    /\ tgLast' = NoTgLast
    /\ UNCHANGED sessions
    /\ UNCHANGED tgRest

\* the command a call runs after the one at step, given whether that one
\* found its session
NextStep(op, step, found) ==
    IF step = "has-session" /\ found /\ op = "inject" THEN "send-keys -l"
    ELSE IF step = "has-session" /\ found /\ op = "capture" THEN "capture-pane"
    ELSE IF step = "send-keys -l" /\ found THEN "send-keys Enter 1"
    ELSE IF step = "send-keys Enter 1" THEN "send-keys Enter 2"
    ELSE "none"

\* the call in progress runs its next command
TgStep ==
    /\ tgPc.op # "idle"
    /\ LET r == ResolveTarget(sessions, tgPc.name, WritesExactTarget(tgPc.step))
           next == NextStep(tgPc.op, tgPc.step, IsSome(r))
       IN  /\ tgLast' = IF IsSome(r)
                        THEN [cmd |-> tgPc.step, requested |-> tgPc.name, actual |-> Unwrap(r)]
                        ELSE NoTgLast
           /\ sessions' = IF tgPc.step = "kill-session" /\ IsSome(r)
                          THEN [x \in (DOMAIN sessions) \ {Unwrap(r)} |-> sessions[x]]
                          ELSE sessions
           /\ tgPc' = IF next = "none" THEN TgIdle ELSE [tgPc EXCEPT !.step = next]
    /\ UNCHANGED tgRest

TgNext ==
    \/ TgAppear
    \/ TgDisappear
    \/ TgCall
    \/ TgStep

TgSpec == TgInit /\ [][TgNext]_vars

\* ------------------------------------------------------------------------
\* Properties of the daemon loop and the reader
\* ------------------------------------------------------------------------

C2_ServedTiers == {"admin", "wife", "family", "favorite"}

\* the message is from-me, or its sender (msg.sender for a group, chat_id
\* for a 1-to-1) is no contact or a contact of another tier
C2_Dropped(msg) ==
    \/ msg.is_from_me
    \/ LET who == IF msg.is_group THEN msg.sender ELSE msg.chat_id
           c   == LookupPhone(ContactsCache, who)
       IN  IsNone(c) \/ Unwrap(c).tier \notin C2_ServedTiers

\* C2: the loop iteration of a message that is from-me or whose sender is
\* not a contact of tier admin, wife, family or favorite changes no session,
\* delivers nothing and leaves the registry (in memory and on disk) as it
\* was; the loop moves on with the cursor at least at the message's ROWID.
C2_DroppedTouchesNothing ==
    [][ (pc = "msgs" /\ idx <= Len(batch) /\ C2_Dropped(batch[idx]))
        => /\ pc' = "msgs"
           /\ idx' = idx + 1
           /\ sessions' = sessions
           /\ reg' = reg
           /\ regFile' = regFile
           /\ injTick' = injTick
           /\ cursorFile' = cursorFile
           /\ last_rowid' = IF last_rowid >= batch[idx].rowid THEN last_rowid
                            ELSE batch[idx].rowid ]_vars

\* after a delivered message created a session, a message of an unauthorized
\* member of a group chat was dropped
C2_Witness ==
    /\ pc = "msgs"
    /\ idx = 3
    /\ batch[2].is_group
    /\ C2_Dropped(batch[2])
    /\ last.kind = "unauthorized"
    /\ DOMAIN sessions # {}
    /\ last_rowid = 2

\* C3: within one poll batch ROWID is strictly increasing in emission order,
\* whatever the dates and the chat_message_join rows of the store.
C3_BatchInRowidOrder ==
    \A i, j \in 1..Len(batch) : i < j => batch[i].rowid < batch[j].rowid

\* a polled row that decodes and carries a text message of an authorized
\* contact
C4_Deliverable(row) ==
    /\ row.decodable
    /\ row.phone = Some(PhoneJane)
    /\ row.text = Some(TextHi)
    /\ ~row.is_from_me

\* C4: whatever row of the poll result fails to decode or to yield its
\* attachments, the loop over the rows ends with the tick continuing into
\* the message loop and with every well-formed message of an authorized
\* contact in the batch.
C4_MalformedRowSkipped ==
    [][ (pc = "rows" /\ pc' # "rows")
        => /\ pc' = "msgs"
           /\ \A i \in 1..Len(result) :
                 C4_Deliverable(result[i])
                 => \E j \in 1..Len(batch') : batch'[j].rowid = result[i].rowid ]_vars

\* C5: once the loop is entered, no failure of a step of a tick makes
\* cmd_run return.
C5_LoopNeverReturns == pc # "aborted"

\* C6: when the process ends on SIGTERM or SIGINT it has finished its tick
\* and the cursor file holds the in-memory cursor.
C6_SignalSavesCursor ==
    [][ pc' = "killed"
        => /\ pc = "poll"
           /\ cursorFile' = Some(I64ToString(last_rowid)) ]_vars

\* C7: a message delivered in a tick that has ended is never delivered
\* again, whatever crashes and restarts lie in between.
C7_NoRedeliveryOfEarlierTick == last.delivered => last.rowid \notin injPast

\* C8: a startup without cursor file sets the cursor to MAX(ROWID), a startup
\* with a cursor file holding a number sets it to that number, and a run
\* started without cursor file never delivers a message that was in the
\* store at its start.
C8_StartupCursor ==
    [][ /\ (pc \in NotRunning /\ pc' = "poll")
           => IF IsNone(cursorFile)
              THEN Some(last_rowid') = MaxRowidOf(db)
              ELSE \A n \in 0..MaxRowid :
                      cursorFile = Some(I64ToString(n)) => last_rowid' = n
        /\ last'.delivered => last'.rowid \notin preexisting' ]_vars

\* a run started without cursor file over a store with history has delivered
\* a later message
C8_Witness ==
    /\ preexisting # {}
    /\ last.delivered
    /\ last.rowid \notin preexisting

\* the session of the group chat named Fam
C9_GroupSession == <<"g","r","o","u","p","-","f","a","m">>

\* C9: a message polled with a NULL chat.style whose join row to the group
\* chat (style 43, display name, chat_identifier) is in the store at the
\* re-query is emitted as a group message with the display name and the
\* chat_identifier, and the loop targets the group's session.
C9_RaceRepaired ==
    pc = "msgs" =>
        \A i \in 1..Len(batch) :
            (batch[i].race = "success" /\ Requery(db, batch[i].rowid) = ChatFam)
            => /\ batch[i].is_group
               /\ batch[i].group_name = Some(NameFam)
               /\ batch[i].chat_id = GroupIdent
               /\ (i = idx - 1 /\ last.kind \in {"injected", "inject_failed", "create_failed"})
                  => last.session = C9_GroupSession

\* the join row arrived between the poll and the re-query and the message
\* was injected into the group's session
C9_Witness ==
    /\ pc = "msgs"
    /\ idx = 2
    /\ batch[1].race = "success"
    /\ batch[1].is_group
    /\ last.kind = "injected"
    /\ last.session = C9_GroupSession
    /\ C9_GroupSession \in DOMAIN sessions

\* C10: every message the reader emits has a non-empty text, an attachment
\* or an audio transcription.
C10_NoEmptyMessage ==
    \A i \in 1..Len(batch) :
        \/ Len(batch[i].text) # 0
        \/ Len(batch[i].attachments) # 0
        \/ IsSome(batch[i].audio_transcription)

\* ------------------------------------------------------------------------
\* Properties of the session registry
\* ------------------------------------------------------------------------

\* C11 (as amended): every entry's created_at is the clock reading observed
\* at the first register of its chat_id since that chat_id was last absent
\* from the map (or the created_at of the file a load read it from), and
\* after a register the entry's session_name, tier and updated_at are those
\* of that register.
C11_CreatedAtOfCurrentRecord ==
    /\ \A c \in DOMAIN reg :
          /\ c \in DOMAIN regHist.first
          /\ reg[c].created_at = regHist.first[c]
    /\ regHist.op = "register" =>
          /\ regHist.chat_id \in DOMAIN reg
          /\ reg[regHist.chat_id].session_name = regHist.session_name
          /\ reg[regHist.chat_id].transcript_dir = regHist.session_name
          /\ reg[regHist.chat_id].tier = regHist.tier
          /\ reg[regHist.chat_id].updated_at = regHist.now

\* a second register of a chat_id, later than the first and under another
\* session name
C11_Witness ==
    /\ regHist.op = "register"
    /\ regHist.existed
    /\ regHist.chat_id \in DOMAIN reg
    /\ reg[regHist.chat_id].created_at < regHist.now
    /\ reg[regHist.chat_id].session_name = SessionNameForGroup(GroupIdent, Some(NameFam))
    /\ regHist.chat_id = PhoneJane

\* C11 (as stated): after any register, created_at equals the value observed
\* on the first register ever made for that chat_id.
C11_CreatedAtOfFirstRegister ==
    regHist.op = "register" =>
        /\ regHist.chat_id \in DOMAIN reg
        /\ reg[regHist.chat_id].created_at = regHist.firstEver[regHist.chat_id]

\* C12: no two entries of the registry have the same session_name.
C12_SessionNameUnique ==
    \A c1 \in DOMAIN reg, c2 \in DOMAIN reg :
        c1 # c2 => reg[c1].session_name # reg[c2].session_name

\* C13: every entry has updated_at >= created_at, and after a register of a
\* chat_id that was already registered, made at a later instant than the
\* first, updated_at is strictly greater than created_at.
C13_UpdatedNotBeforeCreated ==
    /\ \A c \in DOMAIN reg : reg[c].updated_at >= reg[c].created_at
    /\ (/\ regHist.op = "register"
        /\ regHist.existed
        /\ regHist.now > regHist.first[regHist.chat_id])
       => reg[regHist.chat_id].updated_at > reg[regHist.chat_id].created_at

\* a second register of a chat_id at a later instant than its first, after
\* an update_last_message in between
C13_Witness ==
    /\ regHist.op = "register"
    /\ regHist.existed
    /\ regHist.chat_id \in DOMAIN reg
    /\ regHist.now > regHist.first[regHist.chat_id]
    /\ IsSome(reg[regHist.chat_id].last_message_time)

\* C14: when a register, an update_last_message of a registered chat_id or a
\* remove of a registered chat_id has returned successfully, loading the
\* file into a fresh registry succeeds and yields a map equal to the one in
\* memory, a last_message_time of None included (the key is then absent
\* from the entry's JSON object).
C14_FileRoundTrip ==
    (/\ regPc = "idle"
     /\ regHist.op \in {"register", "update", "remove"}
     /\ regHist.existed \/ regHist.op = "register"
     /\ regHist.ok)
    => /\ Load(regFile).ok
       /\ Load(regFile).data = reg
       /\ IsSome(regFile)
       /\ \A c \in DOMAIN reg :
             ("last_message_time" \in DOMAIN Unwrap(regFile).doc[c])
                 <=> IsSome(reg[c].last_message_time)

\* a successful save of a map with one entry that has a last_message_time
\* and one that has none
C14_Witness ==
    /\ regPc = "idle"
    /\ regHist.op \in {"register", "update", "remove"}
    /\ regHist.ok
    /\ regHist.existed \/ regHist.op = "register"
    /\ \E c1 \in DOMAIN reg, c2 \in DOMAIN reg :
          /\ IsSome(reg[c1].last_message_time)
          /\ IsNone(reg[c2].last_message_time)

\* C15: at every instant, a failure at any step of a save or a death of the
\* process included, the registry file is absent or a complete document:
\* the one it held before the call in progress, or the serialisation of the
\* map that call saves.
C15_FileNeverPartial ==
    /\ IsSome(regFile) => Unwrap(regFile).complete
    /\ regFile = regHist.fileBefore \/ regFile = Persisted(reg)

\* a save whose write_all failed half way, while the file holds the document
\* of an earlier save
C15_Witness ==
    /\ regPc = "dropping"
    /\ regTmp = Some(Partial)
    /\ IsSome(regFile)
    /\ regFile # Persisted(reg)

\* ------------------------------------------------------------------------
\* Properties of the reminder manager
\* ------------------------------------------------------------------------

\* C16: under check_due calls with non-decreasing now, a firing instant of a
\* reminder's schedule produces its prompt at most once: of two productions
\* of the same reminder the later one is for a later firing instant, which
\* lies after the check that made the earlier one and is <= now of its own
\* check; and a check_due at the same now as the call right before it
\* returns nothing.
C16_EachFiringInstantOnce ==
    /\ \A i \in 1..Len(remHist.log), j \in 1..Len(remHist.log) :
          (/\ i < j
           /\ remHist.log[i].chat_id = remHist.log[j].chat_id
           /\ remHist.log[i].idx = remHist.log[j].idx)
          => /\ remHist.log[i].instant < remHist.log[j].instant
             /\ remHist.log[i].now < remHist.log[j].instant
    /\ \A i \in 1..Len(remHist.log) : remHist.log[i].instant <= remHist.log[i].now
    /\ remHist.repeat => remHist.due = {}

\* a reminder has been produced for two firing instants, the second by the
\* check before the last one, and the last check, at the same now, returned
\* nothing
C16_Witness ==
    /\ remHist.repeat
    /\ remHist.due = {}
    /\ \E i \in 1..Len(remHist.log), j \in 1..Len(remHist.log) :
          /\ i < j
          /\ remHist.log[i].chat_id = remHist.log[j].chat_id
          /\ remHist.log[i].idx = remHist.log[j].idx
          /\ remHist.log[j].now = clock

\* ------------------------------------------------------------------------
\* Properties of the health classification
\* ------------------------------------------------------------------------

\* C18: check_session_content applies its rules in this priority: three or
\* more distinct API-error patterns give ApiErrorsPersistent, a matching
\* fatal pattern notwithstanding; otherwise a matching fatal pattern gives
\* FatalError with the label of the first one that matches in the order of
\* the list; otherwise content that, trimmed, ends in $, %, > or # and has
\* no "claude" in any case gives ClaudeNotRunning; otherwise Healthy, also
\* with one or two API-error patterns.
C18_RulesInPriority ==
    IsSome(verdict) =>
        LET content == JoinLines(pane)
            v == Unwrap(verdict)
            api == Cardinality(ApiErrorMatches(content))
            fatal == { p \in 1..Len(FATAL_LABELS) : FatalMatches(content, p) }
            idle == EndsWithPrompt(content) /\ ~Contains(ToLower(content), NeedleClaude)
        IN  /\ api >= 3 => v = Unhealthy("ApiErrorsPersistent", "")
            /\ (api < 3 /\ fatal # {}) =>
                  /\ v.reason = "FatalError" /\ ~v.healthy
                  /\ \E p \in fatal : /\ v.label = FATAL_LABELS[p]
                                      /\ \A q \in fatal : p <= q
            /\ (api < 3 /\ fatal = {} /\ idle) => v = Unhealthy("ClaudeNotRunning", "")
            /\ (api < 3 /\ fatal = {} /\ ~idle) => v = Healthy

\* a pane with three API-error patterns and a fatal pattern has been checked
C18_Witness ==
    /\ IsSome(verdict)
    /\ Cardinality(ApiErrorMatches(JoinLines(pane))) >= 3
    /\ \E p \in 1..Len(FATAL_LABELS) : FatalMatches(JoinLines(pane), p)

\* ------------------------------------------------------------------------
\* Properties of the session manager and the health block
\* ------------------------------------------------------------------------

\* C17: the health block runs only when at least health_check_interval has
\* elapsed since the previous one; it visits every registry entry once; for
\* an entry whose session it classifies Unhealthy it calls kill_session for
\* that session name, sleeps one second, and calls create_session for the
\* same name with the entry's stored transcript_dir and stored tier
\* ("favorite" when the entry has none), in that order; for an entry
\* classified Healthy it calls nothing.
C17_UnhealthyRestarted ==
    /\ smHist.op = "no health" => smHist.elapsed < HealthInterval /\ sessions = smHist.before
    /\ smHist.op = "health" =>
          /\ smHist.elapsed >= HealthInterval
          /\ { smHist.restarts[i].chat_id : i \in 1..Len(smHist.restarts) } = DOMAIN reg
          /\ Len(smHist.restarts) = Cardinality(DOMAIN reg)
          /\ \A i \in 1..Len(smHist.restarts) :
                LET e == smHist.restarts[i]
                    data == reg[e.chat_id]
                IN  IF e.status.healthy THEN e.calls = <<>>
                    ELSE /\ Len(e.calls) = 3
                         /\ e.calls[1].call = "kill_session"
                         /\ e.calls[1].name = data.session_name
                         /\ e.calls[2].call = "sleep 1 s"
                         /\ e.calls[3].call = "create_session"
                         /\ e.calls[3].name = data.session_name
                         /\ e.calls[3].transcript_dir = data.transcript_dir
                         /\ e.calls[3].tier = (IF data.tier = None THEN "favorite"
                                               ELSE data.tier[1])

\* a health block that found the session of an entry without tier unhealthy
\* by a fatal pattern and the session of another entry healthy
C17_Witness ==
    /\ smHist.op = "health"
    /\ \E i \in 1..Len(smHist.restarts), j \in 1..Len(smHist.restarts) :
          /\ smHist.restarts[i].status.reason = "FatalError"
          /\ reg[smHist.restarts[i].chat_id].tier = None
          /\ smHist.restarts[i].name \in DOMAIN sessions
          /\ smHist.restarts[j].status.healthy

\* C19: create_session for a name that has a session returns Ok, runs no
\* new-session and leaves the sessions, the tier the existing one was
\* launched with included, as they were; and after two create_session calls
\* for one name in a row, the first of which returned Ok, there is a session
\* of that name and the second call has launched nothing.
C19_CreateIdempotent ==
    smHist.op = "create" =>
        /\ smHist.name \in DOMAIN smHist.before =>
              /\ smHist.ok
              /\ ~Launches(smHist.cmds)
              /\ sessions = smHist.before
        /\ (smHist.prev.op = "create" /\ smHist.prev.name = smHist.name /\ smHist.prev.ok) =>
              /\ smHist.ok
              /\ smHist.name \in DOMAIN sessions
              /\ ~Launches(smHist.cmds)
              /\ sessions = smHist.before

\* create_session twice in a row for a name, the first call launching the
\* session with one tier and the second asking for another
C19_Witness ==
    /\ smHist.op = "create"
    /\ smHist.prev.op = "create"
    /\ smHist.prev.name = smHist.name
    /\ smHist.prev.launched
    /\ smHist.name \in DOMAIN sessions
    /\ sessions[smHist.name] # smHist.tier

\* C20: inject_text for a name without session fails with SessionNotFound
\* and runs no send-keys; for a name with a session the first send-keys is
\* the literal text, and Enter keys, two at most, are sent after it and only
\* when it succeeded; a call that returns Ok has sent the text and two Enter.
C20_InjectOrder ==
    smHist.op = "inject" =>
        LET keys == SelectSeq(smHist.cmds, LAMBDA c : c.cmd \in {"send-keys -l", "send-keys Enter"})
        IN  IF smHist.name \notin DOMAIN smHist.before
            THEN ~smHist.ok /\ smHist.error = "SessionNotFound" /\ keys = <<>>
            ELSE /\ keys # <<>>
                 /\ keys[1].cmd = "send-keys -l"
                 /\ keys[1].arg = smHist.text
                 /\ keys[1].target = smHist.name
                 /\ \A i \in 2..Len(keys) : keys[i].cmd = "send-keys Enter" /\ keys[i].target = smHist.name
                 /\ Len(keys) <= 3
                 /\ ~smHist.textOk => Len(keys) = 1 /\ ~smHist.ok
                 /\ smHist.ok => Len(keys) = 3

\* an inject_text whose send-keys -l failed in an existing session
C20_Witness ==
    /\ smHist.op = "inject"
    /\ smHist.name \in DOMAIN smHist.before
    /\ ~smHist.textOk
    /\ smHist.error = "Tmux"

\* ------------------------------------------------------------------------
\* Properties of the multiplexer targets
\* ------------------------------------------------------------------------

\* C21: every command of the session manager that names a session acts on
\* the session of exactly that name: text and Enter keys are not delivered
\* to, a pane is not captured from and a kill is not applied to a session
\* of another name, whatever sessions appear and disappear meanwhile.
C21_ExactSession == tgLast.cmd # "none" => tgLast.actual = tgLast.requested

\* ------------------------------------------------------------------------
\* The pure functions: launch command, session names, normalize_phone,
\* ContactsManager::load, wrap_sms
\* ------------------------------------------------------------------------

\* longest generated input string
MaxLen == 3

\* all strings of at most n characters of an alphabet
StringsUpTo(alphabet, n) == UNION {[1..k -> alphabet] : k \in 0..n}

NameChars == {"J", "a", " ", "'", "7"}

PhoneChars == {"+", "1", "6", "-", " "}

NineDigits == <<"6","1","7","5","5","5","1","2","3">>

\* the numbers of tests/integration_test.rs and numbers of 9 to 12 digits,
\* bare and behind a plus sign, a space or a parenthesis
PhoneLiterals ==
    LET bodies == {NineDigits, NineDigits \o <<"4">>,
                   <<"1">> \o NineDigits \o <<"4">>,
                   <<"2">> \o NineDigits \o <<"4">>,
                   <<"4","4","7","9","1","1","1","2","3","4","5","6">>,
                   <<"6","1","7","-","5","5","5","-","1","2","3","4">>,
                   <<"(","6","1","7",")"," ","5","5","5","-","1","2","3","4">>}
        fronts == {<<>>, <<"+">>, <<" ">>, <<" ", "+">>}
    IN  {f \o b : f \in fronts, b \in bodies}

PhoneInputs == StringsUpTo(PhoneChars, MaxLen) \cup PhoneLiterals

NameInputs == StringsUpTo(NameChars, MaxLen) \cup {NameJane, NameBob, NameAda}

ChatIdTest == <<"a","b","c","1","2","3","d","e","f","4","5","6">>

LongGroupName == <<"A"," ","V","e","r","y"," ","L","o","n","g"," ","G","r","o","u","p"," ","N","a","m","e"," ","H","e","r","e">>

GroupInputs ==
    {<<c, d>> : c \in {ChatIdTest, GroupIdent, <<"x","x","x">>},
                d \in {None} \cup {Some(n) : n \in StringsUpTo(NameChars, MaxLen - 1) \cup {NameFam, LongGroupName}}}

\* one contact as printed by `contacts list --json`, for every tier spelling
LoadInputs ==
    {<<[name |-> n, phone |-> Some(PhoneAda), email |-> None, tier |-> t]>> : n \in {NameAda, NameBob}, t \in FnTiers}
    \cup {ContactsJson}

ReplyContext == "[Reply context not yet implemented in Rust version]"

ReplyInstruction == "**Important:** You are in a text message session. Communicate back to the user with ~/code/sms-cli/send-sms"

\* wrap_sms: the pieces of the format string (as one token each) with the
\* characters of the substituted values between them
wrap_sms(prompt, contact_name, tier, chat_id, reply_to) ==
    LET reply_context == IF IsSome(reply_to) THEN <<"\n", ReplyContext>> ELSE <<>>
    IN  <<"\n", "---SMS FROM ">> \o contact_name \o <<" (", tier, ")---", "\n">>
        \o <<"Chat ID: ">> \o chat_id \o reply_context \o <<"\n">>
        \o prompt \o <<"\n", "---END SMS---", "\n">>
        \o <<ReplyInstruction, " \"">> \o chat_id \o <<"\" \"message\"", "\n">>

WrapInputs ==
    {<<p, n, t, c, r>> : p \in {TextHi, TextEmpty}, n \in {NameJane, NameBob},
                         t \in BLESSED_TIERS, c \in {PhoneJane, GroupIdent},
                         r \in {None, Some(TextHi)}}

FnCall(fn, args) == [fn |-> fn, args |-> args]

\* bytes that follow a text in a blob
Pad == <<0, 0, 0, 0, 0, 0, 0, 0, 0, 0>>

\* 0x2B with each of the three length encodings in front of "hi", and the
\* same with a length that is larger than the bytes that remain
TextPayloads ==
    { <<43, 2, 104, 105>> \o Pad,
      <<43, 100, 104, 105>> \o Pad,
      <<43, 129, 2, 0, 104, 105>> \o Pad,
      <<43, 129, 255, 255, 104, 105>> \o Pad,
      <<43, 130, 2, 0, 0, 0, 104, 105>> \o Pad,
      <<43, 130, 64, 0, 0, 0, 104, 105>> \o Pad,
      <<43, 130, 255, 255, 255, 255, 104, 105>> \o Pad }

\* "hello world!"
Transcript == <<104, 101, 108, 108, 111, 32, 119, 111, 114, 108, 100, 33>>

\* the two length encodings of a transcription, and a length that is larger
\* than the bytes that remain
AudioPayloads ==
    { <<129, 12, 0>> \o Transcript \o Pad,
      <<12>> \o Transcript \o Pad,
      <<129, 200, 0>> \o Transcript \o Pad,
      <<127>> \o Transcript \o Pad }

\* the blob of test_parse_invalid_blob
RandomBytes == <<0, 1, 2, 3>>

FullBlobs ==
    { <<4, 1>> \o MarkerNSString \o <<1>> \o p : p \in TextPayloads }
    \cup { <<4, 1>> \o MarkerNSMutableString \o <<1>> \o p : p \in TextPayloads }
    \cup { <<4, 1>> \o MarkerAudio \o a : a \in AudioPayloads }
    \cup { MarkerNSString \o <<1, 43, 2, 104, 105>> \o MarkerAudio \o <<129, 12, 0>> \o Transcript \o Pad }
    \cup { <<43, 2, 104, 105>> \o Pad \o <<12>> \o Transcript \o Pad }
    \cup { BplistHi, RandomBytes }

\* every blob cut off at every position
BlobInputs == UNION { { SubSeq(b, 1, n) : n \in 0..Len(b) } : b \in FullBlobs }

FnInputs ==
    {FnCall("claude_cmd", <<t>>) : t \in FnTiers}
    \cup {FnCall("session_name_for_contact", <<n>>) : n \in NameInputs}
    \cup {FnCall("session_name_for_group", g) : g \in GroupInputs}
    \cup {FnCall("normalize_phone", <<p>>) : p \in PhoneInputs}
    \cup {FnCall("load", <<j>>) : j \in LoadInputs}
    \cup {FnCall("wrap_sms", w) : w \in WrapInputs}
    \cup {FnCall("parse_attributed_body", <<b>>) : b \in BlobInputs}

fnRest == <<db, cursorFile, regFile, sessions, pc, reg, last_rowid, result, batch, idx, last, injTick, injPast, preexisting, clock, regVars, remVars, hsVars, smVars, tgVars>>

FnInit ==
    /\ DaemonAtRest
    /\ regFile = None
    /\ reg = EmptyMap
    /\ StatefulAuxInit
    /\ fnIn \in FnInputs
    /\ fnOut = NoFnOut

FnReturn(value) ==
    /\ fnOut = NoFnOut
    /\ fnOut' = [fn |-> fnIn.fn, value |-> value]
    /\ UNCHANGED <<fnIn, fnRest>>

\* create_session builds the launch command for the tier
FnClaudeCmd ==
    /\ fnIn.fn = "claude_cmd"
    /\ FnReturn(ClaudeCmd(fnIn.args[1]))

FnSessionNameForContact ==
    /\ fnIn.fn = "session_name_for_contact"
    /\ FnReturn(SessionNameForContact(fnIn.args[1]))

FnSessionNameForGroup ==
    /\ fnIn.fn = "session_name_for_group"
    /\ FnReturn(SessionNameForGroup(fnIn.args[1], fnIn.args[2]))

FnNormalizePhone ==
    /\ fnIn.fn = "normalize_phone"
    /\ FnReturn(NormalizePhone(fnIn.args[1]))

FnLoad ==
    /\ fnIn.fn = "load"
    /\ FnReturn(ContactsLoad(fnIn.args[1]))

\* cmd_run wraps a message before injecting it
FnWrapSms ==
    /\ fnIn.fn = "wrap_sms"
    /\ FnReturn(wrap_sms(fnIn.args[1], fnIn.args[2], fnIn.args[3], fnIn.args[4], fnIn.args[5]))

\* the reader decodes message.attributedBody
FnParseAttributedBody ==
    /\ fnIn.fn = "parse_attributed_body"
    /\ FnReturn(ParseAttributedBodyBytes(fnIn.args[1]))

FnNext ==
    \/ FnClaudeCmd
    \/ FnSessionNameForContact
    \/ FnSessionNameForGroup
    \/ FnNormalizePhone
    \/ FnLoad
    \/ FnWrapSms
    \/ FnParseAttributedBody

FnSpec == FnInit /\ [][FnNext]_vars

\* ------------------------------------------------------------------------
\* Properties of the pure functions
\* ------------------------------------------------------------------------

RestrictedFlags == <<"--allowedTools", FavoritesAllowed, "--append-system-prompt", FavoritesPrompt>>

\* the flags that follow --dangerously-skip-permissions in a launch command
AddedFlags(cmd) == SubSeq(cmd, 2, Len(cmd))

\* C22: the launch command is a default-restricted table of the tier: no
\* flag is added exactly for the tiers admin and wife, only the
\* append-system-prompt flag (family prompt) exactly for the tier family,
\* and every other tier string, a differently cased admin, wife or family
\* included, gets the restricted allowedTools list and the favorites prompt.
C22_TierTable ==
    fnOut.fn = "claude_cmd" =>
        LET tier  == fnIn.args[1]
            added == AddedFlags(fnOut.value)
        IN  /\ fnOut.value[1] = "--dangerously-skip-permissions"
            /\ (added = <<>>) <=> (tier \in {"admin", "wife"})
            /\ (added = <<"--append-system-prompt", FamilyPrompt>>) <=> (tier = "family")
            /\ (added = RestrictedFlags) <=> (tier \notin {"admin", "wife", "family"})

\* the launch command of a capitalised admin tier has been built
C22_Witness ==
    /\ fnOut.fn = "claude_cmd"
    /\ fnIn.args[1] = "Admin"
    /\ AddedFlags(fnOut.value) = RestrictedFlags

IsKebabChar(c) == IsLower(c) \/ IsDigit(c) \/ c = "-"

IsSnakeChar(c) == IsLower(c) \/ IsDigit(c) \/ c = "_"

\* C23: a session name made from a contact name is lowercase, has only
\* characters of [a-z0-9-] and begins with a letter or a digit; a session
\* name made for a group is "group-" followed by at most 20 characters of
\* [a-z0-9_], with a display name as well as with the chat_id prefix.
C23_SessionNameCharset ==
    /\ fnOut.fn = "session_name_for_contact" =>
           LET name == fnOut.value
           IN  /\ \A i \in 1..Len(name) : IsKebabChar(name[i])
               /\ Len(name) > 0
               /\ IsLower(name[1]) \/ IsDigit(name[1])
    /\ fnOut.fn = "session_name_for_group" =>
           LET name == fnOut.value
               rest == SubSeq(name, Len(GroupPrefix) + 1, Len(name))
           IN  /\ Len(name) >= Len(GroupPrefix)
               /\ SubSeq(name, 1, Len(GroupPrefix)) = GroupPrefix
               /\ Len(rest) <= 20
               /\ \A i \in 1..Len(rest) : IsSnakeChar(rest[i])

Phone617 == <<"+","1","6","1","7","5","5","5","1","2","3","4">>

PhoneUk == <<"+","4","4","7","9","1","1","1","2","3","4","5","6">>

\* the formatted US numbers of tests/integration_test.rs
UsSpellings ==
    {<<"6","1","7","-","5","5","5","-","1","2","3","4">>,
     <<"(","6","1","7",")"," ","5","5","5","-","1","2","3","4">>,
     <<"6","1","7","5","5","5","1","2","3","4">>,
     <<"1","6","1","7","5","5","5","1","2","3","4">>}

\* C24: normalize_phone is idempotent, normalize_phone(normalize_phone(s)) =
\* normalize_phone(s) for every s; 617-555-1234, (617) 555-1234, 6175551234
\* and 16175551234 normalize to +16175551234 and +447911123456 is unchanged.
C24_NormalizeIdempotent ==
    fnOut.fn = "normalize_phone" =>
        /\ NormalizePhone(fnOut.value) = fnOut.value
        /\ fnIn.args[1] \in UsSpellings => fnOut.value = Phone617
        /\ fnIn.args[1] = PhoneUk => fnOut.value = PhoneUk

\* a formatted ten-digit number has been normalized
C24_Witness ==
    /\ fnOut.fn = "normalize_phone"
    /\ fnIn.args[1] = <<"(","6","1","7",")"," ","5","5","5","-","1","2","3","4">>
    /\ fnOut.value = Phone617

IsLowercase(s) == ToLower(s) = s

\* C25: after ContactsManager::load the tier of every Contact of the cache
\* equals its own lowercase form, whatever spelling the contacts CLI printed.
C25_TierLowercased ==
    fnOut.fn = "load" =>
        \A k \in DOMAIN fnOut.value : IsLowercase(Spelling(fnOut.value[k].tier))

\* the first line of the SMS template and the line break that ends it
SmsHeader(contact_name, tier) == <<"---SMS FROM ">> \o contact_name \o <<" (", tier, ")---", "\n">>

\* C26: the text injected for an inbound message begins with the line
\* ---SMS FROM {contact_name} ({tier})---, no character before it, and goes
\* on with the Chat ID line, the body, ---END SMS--- and the reply
\* instruction that names the same chat_id.
C26_WrappedBeginsWithHeader ==
    (fnOut.fn = "wrap_sms" /\ IsNone(fnIn.args[5])) =>
        LET prompt == fnIn.args[1]
            chat_id == fnIn.args[4]
        IN  fnOut.value =
                SmsHeader(fnIn.args[2], fnIn.args[3])
                \o <<"Chat ID: ">> \o chat_id \o <<"\n">>
                \o prompt \o <<"\n", "---END SMS---", "\n">>
                \o <<ReplyInstruction, " \"">> \o chat_id \o <<"\" \"message\"", "\n">>

\* ------------------------------------------------------------------------
\* Properties of the order of a tick
\* ------------------------------------------------------------------------

\* the steps of a tick that can follow one another
TickOrder ==
    {<<"poll", "rows">>, <<"rows", "msgs">>, <<"msgs", "health">>,
     <<"health", "remind">>, <<"remind", "poll">>,
     <<"poll", "health">>, <<"rows", "health">>}

StillNull(msg) == msg.race \in {"still_null", "no_row"}

\* C28: a row whose chat columns are still NULL after the single re-query
\* (or whose re-query fails) is emitted with is_group = false, without
\* group_name and with the handle's phone as chat_id; the daemon handles it
\* as a 1-to-1 message and moves the cursor past it, so that no later poll
\* returns it.
C28_StillNullBestEffort ==
    [][ /\ \A i \in 1..Len(batch') :
              StillNull(batch'[i])
              => /\ ~batch'[i].is_group
                 /\ batch'[i].group_name = None
                 /\ batch'[i].chat_id = batch'[i].sender
        /\ (pc = "msgs" /\ idx <= Len(batch) /\ StillNull(batch[idx]) /\ last' # last)
           => /\ last_rowid' >= batch[idx].rowid
              /\ last'.kind \in {"injected", "inject_failed", "create_failed"}
                 => last'.session = SessionNameForContact(Unwrap(LookupPhone(ContactsCache, batch[idx].chat_id)).name) ]_vars

\* ------------------------------------------------------------------------
\* The health cycles of a daemon that keeps running
\* ------------------------------------------------------------------------

lvRest == <<db, cursorFile, regFile, pc, reg, last_rowid, result, batch, idx, last, injTick, injPast, preexisting, clock, last_health_check, regVars, remVars, hsVars, tgVars, fnVars>>

LvChats == {PhoneJane, GroupIdent}

LvInit ==
    /\ DaemonAtRest
    /\ regFile = None
    /\ reg \in SmRegistries \ {EmptyMap}
    /\ AuxInit

\* a session ends by itself
LvDie ==
    /\ \E name \in DOMAIN sessions :
          /\ sessions' = [n \in (DOMAIN sessions) \ {name} |-> sessions[n]]
          /\ smHist' = [NoSmHist EXCEPT !.op = "die", !.name = name,
                                        !.before = sessions, !.prev = SmPrev,
                                        !.pending = smHist.pending]
    /\ UNCHANGED hbTodo
    /\ UNCHANGED lvRest

\* a tick at which health_check_interval has elapsed enters the health
\* block: `registry.all().clone()`, iterated in the order of the HashMap
LvBegin ==
    /\ hbTodo = <<>>
    /\ hbTodo' \in Arrangements(DOMAIN reg)
    /\ smHist' = [NoSmHist EXCEPT !.op = "health begins", !.before = sessions,
                                  !.elapsed = HealthInterval, !.prev = SmPrev,
                                  !.pending = smHist.pending]
    /\ UNCHANGED sessions
    /\ UNCHANGED lvRest

\* one iteration of the loop of the health block, for the entry of chat_id;
\* createOk tells whether create_dir_all and new-session succeed
LvEntry(chat_id, createOk) ==
    /\ hbTodo # <<>>
    /\ Head(hbTodo) = chat_id
    /\ \E o \in HealthOutcomes :
          /\ (o.dirOk /\ o.tmuxOk) = createOk
          /\ LET e == HealthEntry(sessions, reg[chat_id], o)
             IN  /\ sessions' = e.sess
                 /\ smHist' = [NoSmHist EXCEPT
                       !.op = "health", !.name = e.name, !.ok = createOk,
                       !.before = sessions, !.elapsed = HealthInterval,
                       !.restarts = <<[chat_id |-> chat_id, name |-> e.name,
                                       status |-> e.status, calls |-> e.calls]>>,
                       !.prev = SmPrev,
                       !.retry = e.name \in smHist.pending,
                       !.pending = IF e.name \in DOMAIN e.sess
                                   THEN smHist.pending \ {e.name}
                                   ELSE smHist.pending \cup {e.name}]
    /\ hbTodo' = Tail(hbTodo)
    /\ UNCHANGED lvRest

\* an iteration in which create_session can succeed
LvEntryCreateOk == \E c \in LvChats : LvEntry(c, TRUE)

\* an iteration in which create_dir_all or new-session fails
LvEntryCreateFails == \E c \in LvChats : LvEntry(c, FALSE)

LvNext ==
    \/ LvDie
    \/ LvBegin
    \/ LvEntryCreateOk
    \/ LvEntryCreateFails

\* the loop keeps ticking, so the health block keeps coming up and moves on
\* through its entries; create is fair: for no entry does it fail forever
LvSpec ==
    /\ LvInit
    /\ [][LvNext]_vars
    /\ WF_vars(LvBegin \/ LvEntryCreateOk \/ LvEntryCreateFails)
    /\ \A c \in LvChats : SF_vars(LvEntry(c, TRUE))

\* the session of a registry entry
SessionOf(chat_id) == reg[chat_id].session_name

\* C29: check_health answers Unhealthy(SessionMissing) for a session that
\* does not exist, whatever the classifier would say, so each health block
\* restarts every registered session that has disappeared; a failed create
\* leaves the entry in the registry, the following health block attempts the
\* restart again, and with create not failing forever a registered session
\* that is missing eventually exists again.
C29_MissingRecreated ==
    /\ [](smHist.op = "health" =>
            \A i \in 1..Len(smHist.restarts) :
               LET e == smHist.restarts[i]
               IN  e.name \notin DOMAIN smHist.before
                   => /\ e.status = Unhealthy("SessionMissing", "")
                      /\ Len(e.calls) = 3
                      /\ e.calls[3].call = "create_session"
                      /\ e.calls[3].name = e.name
                      /\ smHist.ok => e.name \in DOMAIN sessions)
    /\ [](\A n \in smHist.pending : \E c \in DOMAIN reg : SessionOf(c) = n)
    /\ [][reg' = reg]_vars
    /\ \A c \in LvChats :
          (c \in DOMAIN reg /\ SessionOf(c) \notin DOMAIN sessions)
          ~> (c \in DOMAIN reg /\ SessionOf(c) \in DOMAIN sessions)

\* a restart whose create failed in one health block has been attempted
\* again in a later one and has brought the session back
C29_Witness ==
    /\ smHist.op = "health"
    /\ smHist.retry
    /\ smHist.name \notin DOMAIN smHist.before
    /\ smHist.name \in DOMAIN sessions

\* ------------------------------------------------------------------------
\* Properties of a failed save
\* ------------------------------------------------------------------------

\* the last call was a register, update_last_message or remove that ran
\* save, and save has returned
MutationReturned ==
    /\ regPc = "idle"
    /\ \/ regHist.op = "register"
       \/ regHist.op \in {"update", "remove"} /\ regHist.existed

\* the in-memory map holds what the last call did to it
MutationInMemory ==
    LET c == regHist.chat_id
    IN  CASE regHist.op = "register" ->
                /\ c \in DOMAIN reg
                /\ reg[c].session_name = regHist.session_name
                /\ reg[c].tier = regHist.tier
                /\ reg[c].updated_at = regHist.now
          [] regHist.op = "update" ->
                /\ c \in DOMAIN reg
                /\ reg[c].last_message_time = Some(regHist.now)
                /\ reg[c].updated_at = regHist.now
          [] regHist.op = "remove" -> c \notin DOMAIN reg

\* C30: when the save inside register, update_last_message or remove fails,
\* the call returns the error, the mutation of the in-memory map is kept and
\* the registry file still holds the complete document it held before; a
\* mutation whose save succeeds leaves the file equal to the whole in-memory
\* map, whatever saves failed before it.
C30_FailedSaveReconverges ==
    MutationReturned =>
        /\ MutationInMemory
        /\ ~regHist.ok => /\ regFile = regHist.fileBefore
                          /\ IsSome(regFile) => Unwrap(regFile).complete
                          /\ regTmp = None
        /\ regHist.ok => regFile = Persisted(reg)

\* an update_last_message has saved a map that had an entry the file did
\* not have: an earlier register of another chat had failed to save
C30_Witness ==
    /\ MutationReturned
    /\ regHist.op = "update"
    /\ regHist.ok
    /\ regFile = Persisted(reg)
    /\ \E c \in DOMAIN reg :
          /\ c # regHist.chat_id
          /\ IsSome(regHist.fileBefore)
          /\ c \notin DOMAIN Unwrap(regHist.fileBefore).doc

\* ------------------------------------------------------------------------
\* Properties of check_due
\* ------------------------------------------------------------------------

\* the chats of the pairs the last check_due returned
DueChats(due) == { d[1] : d \in due }

\* the step is a call of check_due
IsCheckDue == remHist'.checked /\ remHist' # remHist /\ reminders' = reminders /\ clock' = clock

\* C31: check_due(now) sets last_fired to now for every reminder of every
\* chat_id that has a reminder due in the call, the reminders of that chat
\* that are not due included; it leaves every other last_fired entry and
\* every list of reminders as they were; a call in which nothing is due
\* changes nothing.
C31_CheckDueFrame ==
    [][ IsCheckDue =>
          LET chats == DueChats(remHist'.due)
          IN  /\ reminders' = reminders
              /\ \A c \in chats : \A i \in 1..Len(reminders[c]) :
                    /\ ReminderKey(c, i) \in DOMAIN last_fired'
                    /\ last_fired'[ReminderKey(c, i)] = clock
              /\ \A k \in DOMAIN last_fired' :
                    k[1] \notin chats => (k \in DOMAIN last_fired /\ last_fired'[k] = last_fired[k])
              /\ DOMAIN last_fired \subseteq DOMAIN last_fired'
              /\ chats = {} => last_fired' = last_fired ]_vars

\* a check_due has returned the first reminder of a chat and not its second,
\* and has set last_fired of both to now
C31_Witness ==
    /\ remHist.checked
    /\ remHist.prev = clock
    /\ PhoneJane \in DOMAIN reminders
    /\ Len(reminders[PhoneJane]) = 2
    /\ <<PhoneJane, "Pong">> \in remHist.due
    /\ <<PhoneJane, "Once">> \notin remHist.due
    /\ ReminderKey(PhoneJane, 2) \in DOMAIN last_fired
    /\ last_fired[ReminderKey(PhoneJane, 2)] = clock
    /\ PhoneBob \in DOMAIN reminders
    /\ ReminderKey(PhoneBob, 1) \notin DOMAIN last_fired

\* t is a firing instant of the schedule
IsInstant(schedule, t) ==
    \/ t = schedule.phase
    \/ schedule.period > 0 /\ t > schedule.phase /\ (t - schedule.phase) % schedule.period = 0

\* the schedule has an instant after the epoch and not after now
HasInstantSinceEpoch(schedule, now) ==
    \E t \in (Epoch + 1)..now : IsInstant(schedule, t)

\* C32: check_due(now) returns the prompt of a reminder exactly when the first
\* instant of its schedule after its last_fired entry is <= now, a reminder
\* that has never fired counting from the epoch; so the first check_due after
\* a register returns every reminder of the registered chat whose schedule has
\* an instant between the epoch and now.
C32_NewReminderReported ==
    (remHist.checked /\ remHist.prev = clock) =>
        \A c \in remHist.first : \A i \in 1..Len(reminders[c]) :
            HasInstantSinceEpoch(reminders[c][i].schedule, clock)
                => <<c, reminders[c][i].prompt>> \in remHist.due

\* the same for the reminders whose key has no last_fired entry left from a
\* reminder registered earlier under the same chat_id and index
C32_FreshKeyReported ==
    [][ IsCheckDue =>
          \A c \in remHist.fresh : \A i \in 1..Len(reminders[c]) :
              (/\ ReminderKey(c, i) \notin DOMAIN last_fired
               /\ HasInstantSinceEpoch(reminders[c][i].schedule, clock))
                  => <<c, reminders[c][i].prompt>> \in remHist'.due ]_vars

\* ------------------------------------------------------------------------
\* Properties of the blob decoder on truncated and malformed blobs
\* ------------------------------------------------------------------------

\* the marker occurs in the blob
HasMarker(data, marker) ==
    \E i \in 1..Len(data) : i + Len(marker) - 1 <= Len(data) /\ SubSeq(data, i, i + Len(marker) - 1) = marker

\* C33: for every blob (empty, random, cut off at any position after a
\* marker, with a length prefix larger than the bytes that remain)
\* parse_attributed_body indexes no byte past the end of the buffer; the text
\* of a blob that has neither text marker and is no complete property list is
\* None, the transcription of a blob without the audio marker is None; the
\* empty blob and the random-bytes blob give (None, None).
C33_DecoderSafe ==
    fnOut.fn = "parse_attributed_body" =>
        LET data == fnIn.args[1]
            v == fnOut.value
        IN  /\ ~v.oob
            /\ (/\ ~HasMarker(data, MarkerNSString)
                /\ ~HasMarker(data, MarkerNSMutableString)
                /\ IsNone(PlistFromBytes(data))) => v.text = None
            /\ ~HasMarker(data, MarkerAudio) => v.audio = None
            /\ data \in {<<>>, RandomBytes} => (v.text = None /\ v.audio = None)

\* a blob with the NSString marker and a one-byte length of 100 in front of
\* twelve bytes has been decoded: no text, no index past the end
C33_Witness ==
    /\ fnOut.fn = "parse_attributed_body"
    /\ fnIn.args[1] = <<4, 1>> \o MarkerNSString \o <<1, 43, 100, 104, 105>> \o Pad
    /\ fnOut.value.text = None
    /\ ~fnOut.value.oob

\* the decoder finds the text and the transcription of a complete voice blob
C33_Decodes ==
    (/\ fnOut.fn = "parse_attributed_body"
     /\ fnIn.args[1] = MarkerNSString \o <<1, 43, 2, 104, 105>> \o MarkerAudio \o <<129, 12, 0>> \o Transcript \o Pad)
        => /\ fnOut.value.text = Some(<<104, 105>>)
           /\ fnOut.value.audio = Some(Transcript)

\* ------------------------------------------------------------------------
\* Properties of the message loop: registry, tiers, duplicates, cursor
\* ------------------------------------------------------------------------

\* C34: after the loop has injected a message for a chat_id, the registry has
\* an entry for that chat_id whose session_name is the session injected into
\* and whose last_message_time is set, also when the session existed before
\* the message arrived.
C34_InjectedChatRegistered ==
    (pc = "msgs" /\ last.kind = "injected") =>
        /\ last.chat_id \in DOMAIN reg
        /\ reg[last.chat_id].session_name = last.session
        /\ IsSome(reg[last.chat_id].last_message_time)

\* C35: a message of a contact of tier T is injected only into a session
\* whose assistant was launched with the launch command of tier T.
C35_SessionOfSenderTier ==
    (pc = "msgs" /\ last.delivered) =>
        ClaudeCmd(sessions[last.session]) = ClaudeCmd(last.tier)

\* a message of a family contact has been injected into a group session that
\* was launched with the admin command
C35_FamilyIntoAdminSession ==
    /\ pc = "msgs"
    /\ last.kind = "injected"
    /\ last.tier = "family"
    /\ last.session \in DOMAIN sessions
    /\ sessions[last.session] = "admin"
    /\ ClaudeCmd("admin") # ClaudeCmd("family")

\* C36: in one uninterrupted run no message ROWID is injected more than
\* once, neither twice in one poll batch nor again in a later tick.
C36_NoRowidInjectedTwice ==
    [][ (pc = "msgs" /\ idx' = idx + 1 /\ last'.kind = "injected")
            => last'.rowid \notin injTick \cup injPast ]_vars

\* the number a startup would read from the cursor file
FileValue(file) == IF IsSome(file) THEN ParseCursor(Unwrap(file)) ELSE 0

NotesOf(chat_id) ==
    IF chat_id = PhoneJane THEN <<[schedule |-> EveryTwo, prompt |-> "Ping"]>> ELSE <<>>

\* C38: the ReminderManager the loop polls is populated from the REMINDER
\* directives of the contacts by a step of cmd_run: when the loop reaches
\* its reminder block, the manager holds the reminders of every registered
\* chat_id whose contact has directives, so that check_due can return a
\* prompt that is injected into the session of the chat_id.
C38_ManagerPopulated ==
    pc = "remind" =>
        \A c \in DOMAIN reg :
            NotesOf(c) # <<>> => (c \in DOMAIN reminders /\ reminders[c] = NotesOf(c))

\* no reminder block of the daemon ever injects a prompt
C38_NoReminderInjected == last.kind # "reminder" /\ reminders = EmptyMap /\ last_fired = EmptyMap

\* ------------------------------------------------------------------------
\* Properties of the restart in the health block
\* ------------------------------------------------------------------------

\* C39: whenever the health block reports a session as restarted
\* (create_session returned Ok after an Unhealthy verdict), the unhealthy
\* session has been terminated and the session now running under the name
\* has been started by this create_session, also when kill_session failed.
C39_RestartedIsFresh ==
    smHist.op = "health" =>
        \A i \in 1..Len(smHist.restarts) :
            LET e == smHist.restarts[i]
            IN  (~e.status.healthy /\ e.restarted) => (e.terminated /\ e.launched)

====
